---- MODULE Spec2Model ----
(***************************************************************************)
(* A model of Chefbot (src/chefbotv3.py): the utterance parser             *)
(* parse_input_nlp, the candidate filter filter_meal_results with its two  *)
(* checkers, the request function call_mealdb_api and the dialogue         *)
(* controller chatbot_state_machine; and of the question-file loader       *)
(* load_questions_from_json of src/chefbotv2.py.                           *)
(*                                                                         *)
(* Strings are TLA+ strings handled character by character (Len, SubSeq,   *)
(* \o), with 0-based offsets as in the source.  Python lists that the      *)
(* source builds with list(set(...)) are sets here; where the source reads *)
(* element [0] or the first match of such a list the model chooses         *)
(* nondeterministically.  Python dicts keep their insertion order, so the  *)
(* lexicon is a sequence of <<category, <<tag, keywords>>...>> entries.    *)
(***************************************************************************)
EXTENDS Integers, Sequences, FiniteSets, TLC

VARIABLES
    current_state,        \* chatbot_state_machine: current_state
    preferences,          \* chatbot_state_machine: preferences (category -> set of tags)
    asked_this_session,   \* chatbot_state_machine: asked_this_session
    clarification_data,   \* chatbot_state_machine: clarification_data (NoneVal or a record)
    last_intent_data,     \* chatbot_state_machine: last_intent_data (ParseResult or EmptyDict)
    last_results,         \* chatbot_state_machine: last_results
    displayed_meals,      \* chatbot_state_machine: displayed_meals
    available_lists,      \* chatbot_state_machine: available_lists
    last_input,           \* the prompt answered by the last step and the line typed
    search_log,           \* the searches of the step just taken, in order, each
                          \* with the meals left of it after filtering
    n_turns,              \* the bounded session so far: answers said, times sent back
    pcall,                \* parser harness: the call (lexicon, doc, asking type)
    presult,              \* parser harness: the ParseResult returned
    fcall,                \* filter harness: the call (meals, preferences, flags, source)
    fresult,              \* filter harness: the returned list and the fetch log
    ccall,                \* checker harness: the call (detail, preferences)
    cresult,              \* checker harness: what the two checkers returned
    acall,                \* request harness: what the data source does at each request
    aresult,              \* request harness: what call_mealdb_api returned, requests sent
    qcall,                \* question-file harness: the file read by load_questions_from_json
    qresult               \* question-file harness: the list of Question objects returned

vars == <<current_state, preferences, asked_this_session, clarification_data,
          last_intent_data, last_results, displayed_meals, available_lists,
          last_input, search_log, n_turns,
          pcall, presult, fcall, fresult, ccall, cresult, acall, aresult,
          qcall, qresult>>

ctlVars == <<current_state, preferences, asked_this_session, clarification_data,
             last_intent_data, last_results, displayed_meals, available_lists,
             last_input, search_log, n_turns>>
parseVars == <<pcall, presult>>
filterVars == <<fcall, fresult>>
checkVars == <<ccall, cresult>>
apiVars == <<acall, aresult>>
loadVars == <<qcall, qresult>>

NoneVal == "<None>"

-----------------------------------------------------------------------------
(* Character-level string helpers (Python str and re primitives).          *)

LowerCaseOf == [c \in {"A","B","C","D","E","F","G","H","I","J","K","L","M","N",
                       "O","P","Q","R","S","T","U","V","W","X","Y","Z"} |->
    CASE c = "A" -> "a" [] c = "B" -> "b" [] c = "C" -> "c" [] c = "D" -> "d"
      [] c = "E" -> "e" [] c = "F" -> "f" [] c = "G" -> "g" [] c = "H" -> "h"
      [] c = "I" -> "i" [] c = "J" -> "j" [] c = "K" -> "k" [] c = "L" -> "l"
      [] c = "M" -> "m" [] c = "N" -> "n" [] c = "O" -> "o" [] c = "P" -> "p"
      [] c = "Q" -> "q" [] c = "R" -> "r" [] c = "S" -> "s" [] c = "T" -> "t"
      [] c = "U" -> "u" [] c = "V" -> "v" [] c = "W" -> "w" [] c = "X" -> "x"
      [] c = "Y" -> "y" [] c = "Z" -> "z"]

CharAt(s, i) == SubSeq(s, i + 1, i + 1)          \* s[i], 0-based

RECURSIVE Lower(_)
Lower(s) ==                                       \* str.lower()
    IF Len(s) = 0 THEN ""
    ELSE LET c == CharAt(s, 0)
         IN (IF c \in DOMAIN LowerCaseOf THEN LowerCaseOf[c] ELSE c) \o Lower(Tail(s))

RECURSIVE Strip(_)
Strip(s) ==                                       \* str.strip() for blanks
    IF Len(s) = 0 THEN s
    ELSE IF CharAt(s, 0) = " " THEN Strip(Tail(s))
    ELSE IF CharAt(s, Len(s) - 1) = " " THEN Strip(SubSeq(s, 1, Len(s) - 1))
    ELSE s

StartsAt(s, p, i) ==                              \* s[i:i+len(p)] == p
    /\ i >= 0
    /\ i + Len(p) <= Len(s)
    /\ SubSeq(s, i + 1, i + Len(p)) = p

EndsWith(s, p) == Len(p) <= Len(s) /\ StartsAt(s, p, Len(s) - Len(p))

Contains(s, p) == \E i \in 0..Len(s) : StartsAt(s, p, i)      \* p in s

HasSpace(s) == Contains(s, " ")                              \* " " in s

\* re.finditer(re.escape(p), s): the start offsets of the leftmost,
\* non-overlapping occurrences of the literal p in s, scanning from offset i.
RECURSIVE FindIter(_, _, _)
FindIter(p, s, i) ==
    IF i + Len(p) > Len(s) \/ Len(p) = 0 THEN <<>>
    ELSE IF StartsAt(s, p, i) THEN <<i>> \o FindIter(p, s, i + Len(p))
    ELSE FindIter(p, s, i + 1)

WordChars == {"a","b","c","d","e","f","g","h","i","j","k","l","m","n","o","p","q",
              "r","s","t","u","v","w","x","y","z","0","1","2","3","4","5","6","7",
              "8","9","_"} \cup DOMAIN LowerCaseOf

IsWordAt(s, i) == i >= 0 /\ i < Len(s) /\ CharAt(s, i) \in WordChars

\* \b at offset i of s: exactly one side is a word character
BoundaryAt(s, i) == IsWordAt(s, i - 1) # IsWordAt(s, i)

\* re.search(r'\b' + re.escape(kw) + r'\b', s)
WordSearch(kw, s) ==
    \E i \in 0..Len(s) :
        StartsAt(s, kw, i) /\ BoundaryAt(s, i) /\ BoundaryAt(s, i + Len(kw))

RECURSIVE FlattenSeq(_)
FlattenSeq(ss) == IF ss = <<>> THEN <<>> ELSE Head(ss) \o FlattenSeq(Tail(ss))

SeqToSet(q) == {q[i] : i \in 1..Len(q)}

-----------------------------------------------------------------------------
(* The lexicon (preference_map): a sequence of <<category, entries>> where *)
(* entries is a sequence of <<tag, keyword sequence>>, in file order.      *)

PMKeys(pm) == [i \in 1..Len(pm) |-> pm[i][1]]                \* list(preference_map)
PMHas(pm, c) == \E i \in 1..Len(pm) : pm[i][1] = c           \* c in preference_map
PMGet(pm, c) ==                                              \* preference_map.get(c, {})
    IF PMHas(pm, c) THEN pm[CHOOSE i \in 1..Len(pm) : pm[i][1] = c][2] ELSE <<>>
TagHas(entries, t) == \E i \in 1..Len(entries) : entries[i][1] = t
TagGet(entries, t, dflt) ==                                  \* mapping.get(t, dflt)
    IF TagHas(entries, t) THEN entries[CHOOSE i \in 1..Len(entries) : entries[i][1] = t][2]
    ELSE dflt

IsKnownGroup(c) == StartsAt(c, "known_", 0)                  \* key.startswith("known_")

\* every (category, tag, keyword) of the given categories, in iteration order
KeywordItems(pm, types) ==
    FlattenSeq([a \in 1..Len(types) |->
        LET e == PMGet(pm, types[a]) IN
        FlattenSeq([i \in 1..Len(e) |->
            [j \in 1..Len(e[i][2]) |->
                [type |-> types[a], key |-> e[i][1], kw |-> e[i][2][j]]]])])

-----------------------------------------------------------------------------
(* The analyzer's output (spaCy Doc): a sequence of tokens                 *)
(*   [text, ws, lemma, dep, head, pos]                                     *)
(* text is the token's characters, ws whether a blank follows it, head the *)
(* index of its syntactic parent (the root is its own head).  Tokens are   *)
(* numbered from 1 here (token.i + 1).                                     *)

Tok(text, ws, lemma, dep, head, pos) ==
    [text |-> text, ws |-> ws, lemma |-> lemma, dep |-> dep, head |-> head, pos |-> pos]

RECURSIVE DocText(_)
DocText(doc) ==                                   \* doc.text, equal to text_lower
    IF doc = <<>> THEN ""
    ELSE Head(doc).text \o (IF Head(doc).ws THEN " " ELSE "") \o DocText(Tail(doc))

TokIdx(doc, i) == Len(DocText(SubSeq(doc, 1, i - 1)))        \* token.idx
TokEnd(doc, i) == TokIdx(doc, i) + Len(doc[i].text)          \* token.idx + len(token)

Children(doc, i) ==                                          \* token.children
    {j \in 1..Len(doc) : j # i /\ doc[j].head = i}

\* token_by_char: the token holding offset c (a token owns the blank after it); 0 if none
TokenByChar(doc, c) ==
    LET hits == {i \in 1..Len(doc) :
                    /\ TokIdx(doc, i) <= c
                    /\ (i = Len(doc) \/ c < TokIdx(doc, i + 1))}
    IN IF hits = {} \/ c < 0 THEN 0 ELSE CHOOSE i \in hits : TRUE

\* doc.char_span(start_char, end_char, alignment_mode="contract"):
\* <<first, last>> of the tokens lying wholly inside the range, or <<>> for None
\* s0, e0 are the tokens holding the first and the last offset of the range
ContractSpan(doc, start_char, end_char, s0, e0) ==
    IF s0 = 0 \/ e0 = 0 THEN <<>>
    ELSE IF (IF end_char < TokEnd(doc, e0) THEN e0 - 1 ELSE e0)
            < (IF TokIdx(doc, s0) < start_char THEN s0 + 1 ELSE s0)
    THEN <<>>
    ELSE <<IF TokIdx(doc, s0) < start_char THEN s0 + 1 ELSE s0,
           IF end_char < TokEnd(doc, e0) THEN e0 - 1 ELSE e0>>

CharSpan(doc, start_char, end_char) ==
    ContractSpan(doc, start_char, end_char,
                 TokenByChar(doc, start_char), TokenByChar(doc, end_char - 1))

-----------------------------------------------------------------------------
(* parse_input_nlp                                                         *)

QUESTION_WORDS == {"what", "who", "where", "when", "why", "how", "is", "are", "do",
                   "does", "can", "could", "should", "would", "which"}

NegLemmas == {"not", "no", "without"}
NegPrepLemmas == {"without", "except", "excluding"}

KeyErrorResult == [intent |-> "<KeyError>", entities |-> <<>>]

\* keys of extracted_entities that hold tag lists
EntityKeys(pm) ==
    {c \in SeqToSet(PMKeys(pm)) : ~IsKnownGroup(c) /\ c # "flavor"} \cup {"negated"}

\* types_for_phrase_check
TypesForPhraseCheck(pm, prio) ==
    SelectSeq(prio \o SelectSeq(PMKeys(pm),
                                LAMBDA c : c \notin SeqToSet(prio) /\ ~IsKnownGroup(c)),
              LAMBDA t : t # "flavor")

\* the (keyword item, match offset) pairs the phrase pass visits, in its loop order
PhraseOccurrences(pm, prio, text_lower) ==
    LET items == SelectSeq(KeywordItems(pm, TypesForPhraseCheck(pm, prio)),
                           LAMBDA it : HasSpace(it.kw))
    IN FlattenSeq([a \in 1..Len(items) |->
           LET ms == FindIter(items[a].kw, text_lower, 0)
           IN [b \in 1..Len(ms) |-> [item |-> items[a], start |-> ms[b]]]])

\* is_negated_phrase for one match of the phrase pass
IsNegatedPhrase(doc, text_lower, kw, start_char) ==
    \/ \E span \in {CharSpan(doc, start_char, start_char + Len(kw))} :
          /\ span # <<>>
          /\ span[1] > 1
          /\ \/ doc[span[1] - 1].dep = "neg"
             \/ doc[span[1] - 1].lemma \in NegLemmas
    \/ Contains(text_lower, "without " \o kw)

\* PhraseStep with the negation test dropped: a negated phrase lands in its home category
\* target_list_key of a phrase match (lines 100-104): neg is is_negated_phrase
PhraseTarget(asking, it, neg) ==
    IF asking = <<"dislikes">> /\ it.type # "dislikes" THEN "dislikes"
    ELSE IF neg /\ it.type # "dislikes" THEN "negated"
    ELSE it.type

\* the updates of the phrase pass for one match, given its token span and target
PhraseRecord(st, it, span, target) ==
    LET intent1 == IF target = "negated" /\ st.intent = "preference"
                   THEN "negation" ELSE st.intent
        intent2 == IF target = "dislikes" /\ intent1 = "preference"
                   THEN "dislike_statement" ELSE intent1
    IN IF st.err THEN st
       ELSE IF target \notin DOMAIN st.ent THEN [st EXCEPT !.err = TRUE, !.intent = intent1]
       ELSE [st EXCEPT !.intent = intent2,
                       !.ent[target] = @ \cup {it.key},
                       !.matched = @ \cup (IF span = <<>> THEN {} ELSE span[1]..span[2])]

\* PhraseStep with the negation test dropped: a negated phrase lands in its home category
PhraseStepIgnoringNegation(st, doc, text_lower, asking, occ) ==
    PhraseRecord(st, occ.item,
                 CharSpan(doc, occ.start, occ.start + Len(occ.item.kw)),
                 PhraseTarget(asking, occ.item, FALSE))

\* the body of the phrase pass for one match
PhraseStep(st, doc, text_lower, asking, occ) ==
    PhraseRecord(st, occ.item,
                 CharSpan(doc, occ.start, occ.start + Len(occ.item.kw)),
                 PhraseTarget(asking, occ.item,
                              IsNegatedPhrase(doc, text_lower, occ.item.kw, occ.start)))

RECURSIVE PhrasePass(_, _, _, _, _)
PhrasePass(st, doc, text_lower, asking, occs) ==
    IF occs = <<>> THEN st
    ELSE PhrasePass(PhraseStep(st, doc, text_lower, asking, Head(occs)),
                    doc, text_lower, asking, Tail(occs))

\* is_negated_token
IsNegatedToken(doc, i) ==
    \/ \E j \in Children(doc, i) : doc[j].dep = "neg"
    \/ doc[i].dep = "pobj" /\ doc[doc[i].head].lemma \in NegPrepLemmas

\* index of the first keyword item the token's surface form or lemma equals; 0 if none
FirstHit(items, tok) ==
    LET hits == {a \in 1..Len(items) : items[a].kw = tok.text \/ items[a].kw = tok.lemma}
    IN IF hits = {} THEN 0 ELSE CHOOSE a \in hits : \A b \in hits : a <= b

\* the attribute attachment of one unmatched noun token
AttributeStep(st, doc, pm, i) ==
    LET ing == KeywordItems(pm, <<"ingredient">>)
        h == FirstHit(ing, doc[i])
        tex == IF PMHas(pm, "texture") THEN KeywordItems(pm, <<"texture">>) ELSE <<>>
        found == {<<ing[h].key, tex[a].key>> : a \in
                    {a \in 1..Len(tex) : \E c \in Children(doc, i) :
                        /\ doc[c].dep = "amod"
                        /\ tex[a].kw = doc[c].lemma
                        /\ \A b \in 1..(a - 1) : tex[b].kw # doc[c].lemma}}
    IN IF doc[i].pos = "NOUN" /\ h # 0 THEN [st EXCEPT !.attrs = @ \cup found] ELSE st

\* TokenStep with the intent of line 138 assigned on the negated branch as well
TokenStepWrongIntent(st, doc, pm, prioItems, restItems, i) ==
    LET tok == doc[i]
        neg == IsNegatedToken(doc, i)
        h1 == FirstHit(prioItems, tok)
        h2 == FirstHit(restItems, tok)
        type == IF h1 # 0 THEN prioItems[h1].type ELSE restItems[h2].type
        key == IF h1 # 0 THEN prioItems[h1].key ELSE restItems[h2].key
        target == IF ~neg THEN type
                  ELSE IF h1 # 0 /\ type = "dislikes" THEN "dislikes"
                  ELSE "negated"
        intent2 == IF (neg \/ target = "dislikes") /\ st.intent = "preference"
                   THEN "dislike_statement" ELSE st.intent
    IN IF st.err \/ i \in st.matched THEN st
       ELSE IF h1 = 0 /\ h2 = 0 THEN AttributeStep(st, doc, pm, i)
       ELSE [st EXCEPT !.intent = intent2, !.ent[target] = @ \cup {key}]

\* TokenStep without the test of line 118: a token of a matched phrase is matched again
TokenStepRematching(st, doc, pm, prioItems, restItems, i) ==
    LET tok == doc[i]
        neg == IsNegatedToken(doc, i)
        h1 == FirstHit(prioItems, tok)
        h2 == FirstHit(restItems, tok)
        type == IF h1 # 0 THEN prioItems[h1].type ELSE restItems[h2].type
        key == IF h1 # 0 THEN prioItems[h1].key ELSE restItems[h2].key
        target == IF ~neg THEN type
                  ELSE IF h1 # 0 /\ type = "dislikes" THEN "dislikes"
                  ELSE "negated"
        intent1 == IF neg /\ target = "negated" /\ st.intent = "preference"
                   THEN "negation" ELSE st.intent
        intent2 == IF target = "dislikes" /\ intent1 = "preference"
                   THEN "dislike_statement" ELSE intent1
    IN IF st.err THEN st
       ELSE IF h1 = 0 /\ h2 = 0 THEN AttributeStep(st, doc, pm, i)
       ELSE [st EXCEPT !.intent = intent2, !.ent[target] = @ \cup {key}]

\* TokenStep trying the remaining categories before the priority ones
TokenStepFileOrder(st, doc, pm, prioItems, restItems, i) ==
    LET tok == doc[i]
        neg == IsNegatedToken(doc, i)
        h1 == FirstHit(prioItems, tok)
        h2 == FirstHit(restItems, tok)
        type == IF h2 # 0 THEN restItems[h2].type ELSE prioItems[h1].type
        key == IF h2 # 0 THEN restItems[h2].key ELSE prioItems[h1].key
        target == IF ~neg THEN type
                  ELSE IF h2 = 0 /\ type = "dislikes" THEN "dislikes"
                  ELSE "negated"
        intent1 == IF neg /\ target = "negated" /\ st.intent = "preference"
                   THEN "negation" ELSE st.intent
        intent2 == IF target = "dislikes" /\ intent1 = "preference"
                   THEN "dislike_statement" ELSE intent1
    IN IF st.err \/ i \in st.matched THEN st
       ELSE IF h1 = 0 /\ h2 = 0 THEN AttributeStep(st, doc, pm, i)
       ELSE [st EXCEPT !.intent = intent2, !.ent[target] = @ \cup {key}]

\* the body of the single-token pass for token i
TokenStep(st, doc, pm, prioItems, restItems, i) ==
    LET tok == doc[i]
        neg == IsNegatedToken(doc, i)
        h1 == FirstHit(prioItems, tok)
        h2 == FirstHit(restItems, tok)
        type == IF h1 # 0 THEN prioItems[h1].type ELSE restItems[h2].type
        key == IF h1 # 0 THEN prioItems[h1].key ELSE restItems[h2].key
        target == IF ~neg THEN type
                  ELSE IF h1 # 0 /\ type = "dislikes" THEN "dislikes"
                  ELSE "negated"
        intent1 == IF neg /\ target = "negated" /\ st.intent = "preference"
                   THEN "negation" ELSE st.intent
        intent2 == IF target = "dislikes" /\ intent1 = "preference"
                   THEN "dislike_statement" ELSE intent1
    IN IF st.err \/ i \in st.matched THEN st
       ELSE IF h1 = 0 /\ h2 = 0 THEN AttributeStep(st, doc, pm, i)
       ELSE [st EXCEPT !.intent = intent2, !.ent[target] = @ \cup {key}]

RECURSIVE TokenPass(_, _, _, _, _, _)
TokenPass(st, doc, pm, prioItems, restItems, i) ==
    IF i > Len(doc) THEN st
    ELSE TokenPass(TokenStep(st, doc, pm, prioItems, restItems, i),
                   doc, pm, prioItems, restItems, i + 1)

\* the keywords the single-token pass tries first: the priority categories, in order
PriorityItems(pm, prio) == KeywordItems(pm, SelectSeq(prio, LAMBDA t : t # "flavor"))

\* the keywords it tries next: every other category of the lexicon, in file order
RemainingItems(pm, prio) ==
    KeywordItems(pm, SelectSeq(PMKeys(pm), LAMBDA c :
                    ~IsKnownGroup(c) /\ c \notin SeqToSet(prio) /\ c # "flavor"))

\* FinishParse without the filter of line 185: the empty buckets are returned too
FinishParseKeepingEmpty(st) ==
    [intent |-> st.intent, entities |-> st.ent]

\* final_entities and the intent recompute
FinishParse(st) ==
    LET kept == {k \in DOMAIN st.ent : st.ent[k] # {}}
        final_entities ==
            [k \in kept \cup (IF st.attrs = {} THEN {} ELSE {"attributes"}) |->
                IF k = "attributes" /\ k \notin kept THEN st.attrs ELSE st.ent[k]]
        hasNeg == "negated" \in kept
        hasDis == "dislikes" \in kept
        intent1 == IF hasNeg /\ st.intent = "preference" THEN "negation" ELSE st.intent
        intent2 == IF hasDis /\ intent1 = "preference" THEN "dislike_statement" ELSE intent1
    IN [intent |-> intent2, entities |-> final_entities]

\* IsQuestion without the question-word test of line 60
IsQuestionMarkOnly(doc, text_lower) == EndsWith(text_lower, "?")

\* is the utterance question-shaped
IsQuestion(doc, text_lower) ==
    \/ EndsWith(text_lower, "?")
    \/ (IF Len(doc) > 0 THEN doc[1].text ELSE "") \in QUESTION_WORDS

\* parse_input_nlp without the lexicon test of line 51
ParseWithoutLexiconTest(doc, pm, asking) ==
    LET text_lower == DocText(doc)
        st0 == [intent |-> "preference",
                ent |-> [k \in EntityKeys(pm) |-> {}],
                attrs |-> {}, matched |-> {}, err |-> FALSE]
        st1 == PhrasePass(st0, doc, text_lower, asking,
                          PhraseOccurrences(pm, asking, text_lower))
        st2 == TokenPass(st1, doc, pm, PriorityItems(pm, asking),
                         RemainingItems(pm, asking), 1)
    IN IF IsQuestion(doc, text_lower) THEN [intent |-> "question", entities |-> <<>>]
       ELSE IF st2.err THEN KeyErrorResult
       ELSE FinishParse(st2)

\* parse_input_nlp(text, preference_map, available_lists, current_asking_type):
\* doc is NLP(text.lower()); asking is priority_types_to_check
parse_input_nlp(doc, pm, asking) ==
    LET text_lower == DocText(doc)
        st0 == [intent |-> "preference",
                ent |-> [k \in EntityKeys(pm) |-> {}],
                attrs |-> {}, matched |-> {}, err |-> FALSE]
        st1 == PhrasePass(st0, doc, text_lower, asking,
                          PhraseOccurrences(pm, asking, text_lower))
        st2 == TokenPass(st1, doc, pm, PriorityItems(pm, asking),
                         RemainingItems(pm, asking), 1)
    IN IF pm = <<>> THEN [intent |-> "unknown", entities |-> <<>>]
       ELSE IF IsQuestion(doc, text_lower) THEN [intent |-> "question", entities |-> <<>>]
       ELSE IF st2.err THEN KeyErrorResult
       ELSE FinishParse(st2)

\* entities.get(k, [])
EntGet(entities, k) == IF k \in DOMAIN entities THEN entities[k] ELSE {}

-----------------------------------------------------------------------------
(* Meal records.  A summary is [idMeal, strMeal]; a detail record is       *)
(* [idMeal, strMeal, strCategory, strArea, strInstructions, ingredients]   *)
(* where ingredients lists the values of strIngredient1.. in order.  A     *)
(* JSON null is NoneVal, a key the record lacks is MissingKey; NoDetail    *)
(* stands for the None that get_meal_details returns.                      *)

NoDetail == <<>>
MissingKey == "<missing>"

\* bool(record.get(key)) for a field holding a string, null or nothing
Truthy(v) == v # NoneVal /\ v # MissingKey /\ v # ""

\* ingredients_lower (lines 239-240, 280-281)
IngredientsLower(meal_detail) ==
    {Lower(Strip(meal_detail.ingredients[i])) :
        i \in {j \in 1..Len(meal_detail.ingredients) : Truthy(meal_detail.ingredients[j])}}
    \ {""}

\* preferences.get(k, [])
PrefGet(prefs, k) == IF k \in DOMAIN prefs THEN prefs[k] ELSE {}

\* the keywords of every tag of a known-group family
GroupKeywords(pm, group) ==
    LET e == PMGet(pm, group) IN UNION {SeqToSet(e[i][2]) : i \in 1..Len(e)}

\* any(re.search(r'\b' + re.escape(kw) + r'\b', s) for kw in kws)
AnyWordSearch(kws, s) == \E kw \in kws : WordSearch(kw, s)

\* the literals of  a[- ]?b
OptSep(a, b) == {a \o "-" \o b, a \o " " \o b, a \o b}

\* re.search(r'\b(a1|a2|..)\s+(b1|b2|..)\b', s)
WordPairSearch(as, bs, s) ==
    \E a \in as, b \in bs, i \in 0..Len(s), n \in 1..Len(s) :
        /\ BoundaryAt(s, i)
        /\ StartsAt(s, a, i)
        /\ \A k \in 0..(n - 1) : i + Len(a) + k < Len(s) /\ CharAt(s, i + Len(a) + k) = " "
        /\ StartsAt(s, b, i + Len(a) + n)
        /\ BoundaryAt(s, i + Len(a) + n + Len(b))

\* MeatException without the vegetable qualifier: any broth or stock excuses the hit
MeatExceptionAnyBroth(ing_str) ==
    AnyWordSearch({"broth", "stock", "bouillon"}, ing_str)

\* line 254: the exception to a meat keyword hit
MeatException(ing_str) ==
    WordPairSearch({"vegetarian", "vegetable", "veggie"}, {"broth", "stock", "bouillon"}, ing_str)

\* line 256: the exception to a dairy keyword hit
DairyException(ing_str) ==
    AnyWordSearch(OptSep("dairy", "free") \cup OptSep("lactose", "free"), ing_str)

\* lines 260-263: does a gluten keyword hit on this line exclude
GlutenViolation(ing_str) ==
    LET soy == Contains(ing_str, "soy sauce")
        oat == AnyWordSearch({"oat", "oats"}, ing_str)
        tamari == AnyWordSearch({"tamari"} \cup
                     {x \o " soy sauce" : x \in OptSep("gluten", "free")}, ing_str)
        gfOat == AnyWordSearch({x \o " oat" : x \in OptSep("gluten", "free")} \cup
                     {"certified " \o x : x \in OptSep("gluten", "free")}, ing_str)
    IN /\ ~AnyWordSearch(OptSep("gluten", "free"), ing_str)
       /\ IF soy /\ ~tamari THEN TRUE
          ELSE IF oat /\ ~gfOat THEN TRUE
          ELSE ~(soy \/ oat)

\* violating_keywords with the meat keywords collected for vegetarian only
ViolatingKeywordsVeganWithoutMeat(dietary, pm) ==
    [meat   |-> IF "vegetarian" \in dietary
                THEN GroupKeywords(pm, "known_meats") ELSE {},
     dairy  |-> IF "vegan" \in dietary \/ "dairy_free" \in dietary
                THEN GroupKeywords(pm, "known_dairy") ELSE {},
     eggs   |-> IF "vegan" \in dietary
                THEN SeqToSet(TagGet(PMGet(pm, "ingredient"), "eggs", <<>>)) ELSE {},
     gluten |-> IF "gluten_free" \in dietary
                THEN GroupKeywords(pm, "known_gluten") ELSE {}]

\* violating_keywords (lines 242-250)
ViolatingKeywords(dietary, pm) ==
    [meat   |-> IF "vegetarian" \in dietary \/ "vegan" \in dietary
                THEN GroupKeywords(pm, "known_meats") ELSE {},
     dairy  |-> IF "vegan" \in dietary \/ "dairy_free" \in dietary
                THEN GroupKeywords(pm, "known_dairy") ELSE {},
     eggs   |-> IF "vegan" \in dietary
                THEN SeqToSet(TagGet(PMGet(pm, "ingredient"), "eggs", <<>>)) ELSE {},
     gluten |-> IF "gluten_free" \in dietary
                THEN GroupKeywords(pm, "known_gluten") ELSE {}]

\* lines 253-263 for one ingredient line
LineViolates(vk, ing_str) ==
    \/ AnyWordSearch(vk.meat, ing_str) /\ ~MeatException(ing_str)
    \/ AnyWordSearch(vk.dairy, ing_str) /\ ~DairyException(ing_str)
    \/ AnyWordSearch(vk.eggs, ing_str)
    \/ AnyWordSearch(vk.gluten, ing_str) /\ GlutenViolation(ing_str)

\* check_dietary_restrictions letting a vegetable broth on any line excuse the detail
CheckDietaryExcusingAcrossLines(meal_detail, prefs, pm) ==
    IF meal_detail = NoDetail THEN TRUE
    ELSE IF PrefGet(prefs, "dietary") = {} THEN FALSE
    ELSE /\ \E ing_str \in IngredientsLower(meal_detail) :
               LineViolates(ViolatingKeywords(PrefGet(prefs, "dietary"), pm), ing_str)
         /\ ~\E other \in IngredientsLower(meal_detail) : MeatException(other)

\* check_dietary_restrictions(meal_detail, preferences, preference_map)
check_dietary_restrictions(meal_detail, prefs, pm) ==
    IF meal_detail = NoDetail THEN TRUE
    ELSE IF PrefGet(prefs, "dietary") = {} THEN FALSE
    ELSE \E ing_str \in IngredientsLower(meal_detail) :
            LineViolates(ViolatingKeywords(PrefGet(prefs, "dietary"), pm), ing_str)

\* all_disliked_keywords_to_check (lines 271-276)
DislikedKeywords(prefs, pm) ==
    UNION {{Lower(kw) : kw \in SeqToSet(TagGet(PMGet(pm, "dislikes"), item_key, <<>>))}
           \cup UNION {{Lower(kw) : kw \in
                          SeqToSet(TagGet(PMGet(pm, pref_type), item_key, <<Lower(item_key)>>))}
                       : pref_type \in {"ingredient", "category", "cuisine"}}
           : item_key \in PrefGet(prefs, "dislikes")}

\* does check_dislikes reach .lower() on a null strMeal or strCategory (AttributeError)
check_dislikes_raises(meal_detail, prefs, pm) ==
    LET kws == DislikedKeywords(prefs, pm)
    IN /\ meal_detail # NoDetail
       /\ PrefGet(prefs, "dislikes") # {}
       /\ kws # {}
       /\ ~\E ing_str \in IngredientsLower(meal_detail) : AnyWordSearch(kws, ing_str)
       /\ \/ meal_detail.strMeal = NoneVal
          \/ meal_detail.strCategory = NoneVal

\* check_dislikes(meal_detail, preferences, preference_map)
check_dislikes(meal_detail, prefs, pm) ==
    LET kws == DislikedKeywords(prefs, pm)
    IN IF meal_detail = NoDetail THEN TRUE
       ELSE IF PrefGet(prefs, "dislikes") = {} THEN FALSE
       ELSE IF kws = {} THEN FALSE
       ELSE \/ \E ing_str \in IngredientsLower(meal_detail) : AnyWordSearch(kws, ing_str)
            \/ AnyWordSearch(kws, Lower(meal_detail.strMeal))
            \/ AnyWordSearch(kws, Lower(meal_detail.strCategory))

-----------------------------------------------------------------------------
(* filter_meal_results.  The data source is src = [db, fails]: db maps a   *)
(* meal id to its detail record, fails is the set of ordinals of the       *)
(* lookups of this call that come back empty (any request may fail).       *)

DbGet(db, id) == IF id \in DOMAIN db THEN db[id] ELSE NoDetail

\* get_meal_details(meal_id) as the n-th lookup of the call
get_meal_details(src, meal_id, n) ==
    IF ~Truthy(meal_id) \/ n \in src.fails THEN NoDetail ELSE DbGet(src.db, meal_id)

\* needs_detail_check that inspects whenever a cuisine is held, searched by it or not
NeedsDetailCheckAnyCuisine(prefs, force_detail_check, initial_search_type) ==
    \/ force_detail_check
    \/ \E key \in {"dislikes", "dietary"} : PrefGet(prefs, key) # {}
    \/ PrefGet(prefs, "category") # {} /\ initial_search_type # "category"
    \/ PrefGet(prefs, "cuisine") # {}
    \/ PrefGet(prefs, "ingredient") # {} /\ initial_search_type # "ingredient"

\* needs_detail_check (lines 297-301)
NeedsDetailCheck(prefs, force_detail_check, initial_search_type) ==
    \/ force_detail_check
    \/ \E key \in {"dislikes", "dietary"} : PrefGet(prefs, key) # {}
    \/ PrefGet(prefs, "category") # {} /\ initial_search_type # "category"
    \/ PrefGet(prefs, "cuisine") # {} /\ initial_search_type # "cuisine"
    \/ PrefGet(prefs, "ingredient") # {} /\ initial_search_type # "ingredient"

\* secondary_<type>_key (lines 322, 332, 342): the single tag, or NoneVal
SecondaryKey(prefs, type, initial_search_type) ==
    IF Cardinality(PrefGet(prefs, type)) = 1 /\ initial_search_type # type
    THEN CHOOSE t \in PrefGet(prefs, type) : TRUE
    ELSE NoneVal

\* expected_api_areas / expected_api_cats (lines 325-329, 335-339)
ExpectedApiValues(pm, type, key, vocabulary) ==
    LET mapped == {Lower(kw) : kw \in SeqToSet(TagGet(PMGet(pm, type), key, <<>>))}
                  \cap vocabulary
    IN IF mapped = {} /\ Lower(key) \in vocabulary THEN {Lower(key)} ELSE mapped

\* lines 322-330 and 332-340: is the candidate dropped by the secondary cuisine
\* (field strArea) or category (field strCategory) tag
SecondaryFieldMismatch(pm, prefs, type, field_value, vocabulary, initial_search_type) ==
    LET key == SecondaryKey(prefs, type, initial_search_type)
        expected == ExpectedApiValues(pm, type, key, vocabulary)
    IN key # NoneVal /\ expected # {} /\ Lower(field_value) \notin expected

\* lines 342-353: is the candidate dropped by the secondary ingredient tag
SecondaryIngredientMissing(pm, prefs, meal_detail, initial_search_type) ==
    LET key == SecondaryKey(prefs, "ingredient", initial_search_type)
        kws == {Lower(kw) : kw \in
                   SeqToSet(TagGet(PMGet(pm, "ingredient"), key, <<Lower(key)>>))}
    IN /\ key # NoneVal
       /\ ~\E i \in 1..Len(meal_detail.ingredients) :
              LET ing_name == meal_detail.ingredients[i]
              IN /\ Truthy(ing_name) /\ Strip(ing_name) # ""
                 /\ AnyWordSearch(kws, Lower(Strip(ing_name)))

\* DetailOutcome without the dietary test of line 320
DetailOutcomeNoDietary(meal_detail, prefs, pm, lists, initial_search_type) ==
    IF check_dislikes_raises(meal_detail, prefs, pm) THEN "raise"
    ELSE IF check_dislikes(meal_detail, prefs, pm) THEN "drop"
    ELSE IF /\ SecondaryKey(prefs, "cuisine", initial_search_type) # NoneVal
            /\ meal_detail.strArea = NoneVal THEN "raise"
    ELSE IF SecondaryFieldMismatch(pm, prefs, "cuisine", meal_detail.strArea,
                                   lists.areas, initial_search_type) THEN "drop"
    ELSE IF /\ SecondaryKey(prefs, "category", initial_search_type) # NoneVal
            /\ meal_detail.strCategory = NoneVal THEN "raise"
    ELSE IF SecondaryFieldMismatch(pm, prefs, "category", meal_detail.strCategory,
                                   lists.categories, initial_search_type) THEN "drop"
    ELSE IF SecondaryIngredientMissing(pm, prefs, meal_detail, initial_search_type) THEN "drop"
    ELSE "keep"

\* lines 319-357 for a fetched detail, in the order of the code: "drop" (continue),
\* "keep" (append), or "raise" (.lower() on a null strMeal / strCategory in
\* check_dislikes, or on a null strArea (324) / strCategory (334): AttributeError)
DetailOutcome(meal_detail, prefs, pm, lists, initial_search_type) ==
    IF check_dislikes_raises(meal_detail, prefs, pm) THEN "raise"
    ELSE IF check_dislikes(meal_detail, prefs, pm) THEN "drop"
    ELSE IF check_dietary_restrictions(meal_detail, prefs, pm) THEN "drop"
    ELSE IF /\ SecondaryKey(prefs, "cuisine", initial_search_type) # NoneVal
            /\ meal_detail.strArea = NoneVal THEN "raise"
    ELSE IF SecondaryFieldMismatch(pm, prefs, "cuisine", meal_detail.strArea,
                                   lists.areas, initial_search_type) THEN "drop"
    ELSE IF /\ SecondaryKey(prefs, "category", initial_search_type) # NoneVal
            /\ meal_detail.strCategory = NoneVal THEN "raise"
    ELSE IF SecondaryFieldMismatch(pm, prefs, "category", meal_detail.strCategory,
                                   lists.categories, initial_search_type) THEN "drop"
    ELSE IF SecondaryIngredientMissing(pm, prefs, meal_detail, initial_search_type) THEN "drop"
    ELSE "keep"

\* the loop body (lines 309-357) for one candidate; st = [keep, cache, fetched, raised]
FilterStep(st, meal_summary, prefs, pm, lists, initial_search_type, src) ==
    LET meal_id == meal_summary.idMeal
        cached == meal_id \in st.cache
        meal_detail == IF cached THEN DbGet(src.db, meal_id)
                       ELSE get_meal_details(src, meal_id, Len(st.fetched) + 1)
        st1 == IF cached THEN st
               ELSE [st EXCEPT !.fetched = Append(@, meal_id),
                               !.cache = IF meal_detail # NoDetail
                                         THEN @ \cup {meal_id} ELSE @]
        outcome == DetailOutcome(meal_detail, prefs, pm, lists, initial_search_type)
    IN IF st.raised \/ ~Truthy(meal_id) THEN st
       ELSE IF meal_detail = NoDetail THEN st1
       ELSE IF outcome = "raise" THEN [st1 EXCEPT !.raised = TRUE]
       ELSE IF outcome = "keep" THEN [st1 EXCEPT !.keep = Append(@, meal_summary)]
       ELSE st1

RECURSIVE FilterLoop(_, _, _, _, _, _, _)
FilterLoop(st, meals, prefs, pm, lists, initial_search_type, src) ==
    IF meals = <<>> THEN st
    ELSE FilterLoop(FilterStep(st, Head(meals), prefs, pm, lists,
                               initial_search_type, src),
                    Tail(meals), prefs, pm, lists, initial_search_type, src)

\* filter_meal_results(meals, preferences, preference_map, available_lists,
\*                     force_detail_check, initial_search_type):
\* [ret: the returned list, raised: an exception escaped, fetched: ids looked up]
filter_meal_results(meals, prefs, pm, lists, force_detail_check, initial_search_type, src) ==
    LET st == FilterLoop([keep |-> <<>>, cache |-> {}, fetched |-> <<>>, raised |-> FALSE],
                         meals, prefs, pm, lists, initial_search_type, src)
    IN IF meals = <<>> THEN [ret |-> <<>>, raised |-> FALSE, fetched |-> <<>>]
       ELSE IF ~NeedsDetailCheck(prefs, force_detail_check, initial_search_type)
            THEN [ret |-> meals, raised |-> FALSE, fetched |-> <<>>]
       ELSE [ret |-> IF st.raised THEN <<>> ELSE st.keep,
             raised |-> st.raised, fetched |-> st.fetched]

-----------------------------------------------------------------------------
(* Lexicons.  preference_map.json is configuration, not code: the model    *)
(* uses small lexicons with the shapes the code distinguishes (single- and *)
(* multi-word keywords, a tag reachable by two keywords, a word that is a  *)
(* keyword in two categories, the dislikes map with a tag whose own text   *)
(* is none of its keywords, the eggs tag, known-group families).           *)

PREFERENCE_MAP ==
    << <<"cuisine",    << <<"italian", <<"italian", "pasta">> >>,
                          <<"mexican", <<"mexican">> >> >> >>,
       <<"ingredient", << <<"chicken", <<"chicken", "chicken breast">> >>,
                          <<"rice", <<"rice">> >>,
                          <<"cream", <<"cream">> >>,
                          <<"eggs", <<"egg", "eggs">> >> >> >>,
       <<"category",   << <<"dessert", <<"dessert", "ice cream">> >>,
                          <<"chicken", <<"chicken">> >> >> >>,
       <<"dietary",    << <<"vegetarian", <<"vegetarian", "veggie">> >>,
                          <<"vegan", <<"vegan">> >> >> >>,
       <<"dislikes",   << <<"mushrooms", <<"mushroom", "mushrooms">> >>,
                          <<"spicy", <<"chili", "jalapeno">> >> >> >>,
       <<"texture",    << <<"crispy", <<"crispy">> >> >> >>,
       <<"known_meats", << <<"poultry", <<"chicken">> >>,
                           <<"red_meat", <<"beef">> >> >> >>,
       <<"known_dairy", << <<"milk", <<"cream", "milk">> >> >> >>,
       <<"known_gluten", << <<"wheat", <<"flour", "soy sauce", "oats">> >> >> >> >>

\* the lexicon of the specification's end-to-end examples
ITALIAN_MAP ==
    << <<"cuisine",  << <<"italian", <<"italian", "pasta">> >> >> >>,
       <<"dislikes", <<>> >> >>

\* the harness names the lexicon of a call instead of carrying it
\* (EMPTY_MAP: a lexicon file that is missing or holds no category)
LexiconOf(name) ==
    IF name = "ITALIAN_MAP" THEN ITALIAN_MAP
    ELSE IF name = "EMPTY_MAP" THEN <<>>
    ELSE PREFERENCE_MAP

-----------------------------------------------------------------------------
(* Parser harness: utterances are built from token shapes; the analyzer's  *)
(* attributes come with the shape, the head as an offset from the token.   *)

MaxTokens == 4

Shape(text, lemma, dep, hoff, pos) ==
    [text |-> text, lemma |-> lemma, dep |-> dep, hoff |-> hoff, pos |-> pos]

TokenShapes ==
    { Shape("no", "no", "neg", 1, "DET"),
      Shape("without", "without", "prep", 0, "ADP"),
      Shape("chicken", "chicken", "pobj", -1, "NOUN"),
      Shape("ice", "ice", "compound", 1, "NOUN"),
      Shape("cream", "cream", "dobj", 0, "NOUN"),
      Shape("mushrooms", "mushroom", "dobj", 0, "NOUN"),
      Shape("dessert", "dessert", "dobj", 0, "NOUN") }

\* NLP(text_lower) for the utterance made of the given shapes, blank-separated
BuildDoc(shapes) ==
    [i \in 1..Len(shapes) |->
        LET h == i + shapes[i].hoff
        IN Tok(shapes[i].text, i < Len(shapes), shapes[i].lemma, shapes[i].dep,
               IF h >= 1 /\ h <= Len(shapes) THEN h ELSE i, shapes[i].pos)]

\* (lexicon, current_asking_type) of the calls: the controller's three forms
\* (lines 438, 488, 552), a call without a priority category and a call
\* without a lexicon
ParseCalls ==
    { <<"PREFERENCE_MAP", <<"cuisine", "ingredient">> >>,
      <<"PREFERENCE_MAP", <<"category">> >>,
      <<"PREFERENCE_MAP", <<"dislikes">> >>,
      <<"ITALIAN_MAP", <<>> >>,
      <<"EMPTY_MAP", <<"cuisine">> >> }

\* the variables of the parts a specification does not exercise
IdleCtl ==
    /\ current_state = "START"
    /\ preferences = <<>>
    /\ asked_this_session = {}
    /\ clarification_data = <<>>
    /\ last_intent_data = <<>>
    /\ last_results = <<>>
    /\ displayed_meals = <<>>
    /\ available_lists = <<>>
    /\ last_input = <<>>
    /\ search_log = <<>>
    /\ n_turns = [said |-> 0, back |-> 0]
IdleParse == pcall = <<>> /\ presult = <<>>
IdleFilter == fcall = <<>> /\ fresult = <<>>
IdleCheck == ccall = <<>> /\ cresult = <<>>
IdleApi == acall = <<>> /\ aresult = <<>>
IdleLoad == qcall = <<>> /\ qresult = <<>>

\* a call starts from the empty utterance or from a question word, or is one of
\* the two worked utterances, analysed as a whole:
\*   "i don't want italian food"  n't a neg child of want, italian an amod of food
\*   "pasta please"               asked for a cuisine
\*   "ice cream without ice cream" asked for a category, the second phrase the
\*                                object of without
ParseInit ==
    /\ \/ \E c \in ParseCalls,
              first \in {<<>>, <<Shape("what", "what", "ROOT", 0, "PRON")>>} :
             pcall = [pm |-> c[1], shapes |-> first, doc |-> BuildDoc(first),
                      asking |-> c[2]]
       \/ pcall = [pm |-> "ITALIAN_MAP", shapes |-> <<>>, asking |-> <<>>,
                   doc |-> << Tok("i", TRUE, "i", "nsubj", 4, "PRON"),
                              Tok("do", FALSE, "do", "aux", 4, "AUX"),
                              Tok("n't", TRUE, "not", "neg", 4, "PART"),
                              Tok("want", TRUE, "want", "ROOT", 4, "VERB"),
                              Tok("italian", TRUE, "italian", "amod", 6, "ADJ"),
                              Tok("food", FALSE, "food", "dobj", 4, "NOUN") >>]
       \/ pcall = [pm |-> "ITALIAN_MAP", shapes |-> <<>>, asking |-> <<"cuisine">>,
                   doc |-> << Tok("pasta", TRUE, "pasta", "ROOT", 1, "NOUN"),
                              Tok("please", FALSE, "please", "intj", 1, "INTJ") >>]
       \/ pcall = [pm |-> "PREFERENCE_MAP", shapes |-> <<>>, asking |-> <<"category">>,
                   doc |-> << Tok("ice", TRUE, "ice", "compound", 2, "NOUN"),
                              Tok("cream", TRUE, "cream", "ROOT", 2, "NOUN"),
                              Tok("without", TRUE, "without", "prep", 2, "ADP"),
                              Tok("ice", TRUE, "ice", "compound", 5, "NOUN"),
                              Tok("cream", FALSE, "cream", "pobj", 3, "NOUN") >>]
    /\ presult = parse_input_nlp(pcall.doc, LexiconOf(pcall.pm), pcall.asking)
    /\ IdleCtl /\ IdleFilter /\ IdleCheck /\ IdleApi /\ IdleLoad

\* the user's utterance grows by one token, or is closed by a question mark
\* (which nothing follows), and is parsed
ParseUtterance ==
    /\ Len(pcall.shapes) < MaxTokens
    /\ pcall.doc = BuildDoc(pcall.shapes)
    /\ \/ \E sh \in TokenShapes :
             pcall' = [pcall EXCEPT !.shapes = Append(pcall.shapes, sh),
                                    !.doc = BuildDoc(Append(pcall.shapes, sh))]
       \/ pcall' = [pcall EXCEPT !.doc =
                       [i \in 1..(Len(pcall.doc) + 1) |->
                           IF i <= Len(pcall.doc)
                           THEN pcall.doc[i]
                           ELSE Tok("?", FALSE, "?", "punct",
                                    IF i = 1 THEN 1 ELSE i - 1, "PUNCT")]]
    /\ presult' = parse_input_nlp(pcall'.doc, LexiconOf(pcall.pm), pcall.asking)
    /\ UNCHANGED <<ctlVars, filterVars, checkVars, apiVars, loadVars>>

ParseNext == ParseUtterance

SpecParse == ParseInit /\ [][ParseNext]_vars

-----------------------------------------------------------------------------
(* Checker harness: a detail record grows by one ingredient line and both  *)
(* checkers are applied to it.                                             *)

MaxLines == 2

IngredientLines ==
    { "1 cup Chicken broth", "2 cups vegetable broth", "1 onion",
      "chicken vegetable stock", "cream", "dairy-free cream", "Mushrooms ", NoneVal,
      "2 eggs", "eggs in vegetable broth", "flour", "gluten-free flour",
      "tamari soy sauce", "spicy sausage" }

CheckDetail(lines) ==
    [idMeal |-> "52000", strMeal |-> "Soup", strCategory |-> "Starter",
     strArea |-> "Italian", strInstructions |-> "Simmer.", ingredients |-> lines]

CheckResults(call) ==
    [dietary |-> check_dietary_restrictions(call.detail, call.prefs, PREFERENCE_MAP),
     dislikes |-> check_dislikes(call.detail, call.prefs, PREFERENCE_MAP)]

CheckInit ==
    /\ \E dietary \in SUBSET {"vegetarian", "vegan", "dairy_free", "gluten_free"},
          dislikes \in {{}, {"chicken"}, {"mushrooms"}, {"spicy"}} :
          ccall = [detail |-> CheckDetail(<<>>),
                   prefs |-> [dietary |-> dietary, dislikes |-> dislikes]]
    /\ cresult = CheckResults(ccall)
    /\ IdleCtl /\ IdleParse /\ IdleFilter /\ IdleApi /\ IdleLoad

\* the record gains an ingredient line and is checked
CheckDetailRecord ==
    /\ Len(ccall.detail.ingredients) < MaxLines
    /\ \E line \in IngredientLines :
          LET call == [ccall EXCEPT !.detail.ingredients = Append(@, line)]
          IN ccall' = call /\ cresult' = CheckResults(call)
    /\ UNCHANGED <<ctlVars, parseVars, filterVars, apiVars, loadVars>>

CheckNext == CheckDetailRecord

SpecCheck == CheckInit /\ [][CheckNext]_vars

-----------------------------------------------------------------------------
(* Request harness: call_mealdb_api against a data source whose behaviour  *)
(* at each successive request is given.                                    *)

\* what one requests.get may do: raise Timeout, ConnectionError or another
\* RequestException, or return a response with a status and a body.  The body is
\* undecodable, a JSON array, an object whose 'meals' is null, or an object with
\* a list of meals.
RequestOutcomes ==
    [kind : {"Timeout", "ConnectionError", "RequestException"}, status : {0}, body : {""}]
    \cup [kind : {"response"}, status : {200},
          body : {"undecodable", "array", "meals_null", "meals"}]
    \cup {[kind |-> "response", status |-> 429, body |-> "undecodable"],
          [kind |-> "response", status |-> 500, body |-> "meals"]}

MaxRequests == 3

\* the rest of the try block for the response that is kept (lines 198-207):
\* raise_for_status, response.json() and data.get('meals') under the except
\* clauses; sent is the number of requests issued
ReturnedFrom(response, sent) ==
    LET exception ==
            IF response.kind # "response" THEN response.kind
            ELSE IF response.status >= 400 THEN "HTTPError"
            ELSE IF response.body = "undecodable" THEN "JSONDecodeError"
            ELSE IF response.body = "array" THEN "AttributeError"
            ELSE ""
        named == {"Timeout", "ConnectionError", "HTTPError", "RequestException",
                  "JSONDecodeError"}
    IN IF exception = ""
       THEN [ret |-> IF response.body = "meals" THEN "meals" ELSE NoneVal,
             sent |-> sent, raised |-> ""]
       ELSE IF exception \in named
       THEN [ret |-> NoneVal, sent |-> sent, raised |-> ""]
       ELSE [ret |-> NoneVal, sent |-> sent, raised |-> ""]

\* call_mealdb_api that requests again after any error status
CallRetryingOnAnyError(outcomes) ==
    IF outcomes[1].kind = "response" /\ outcomes[1].status >= 400
    THEN ReturnedFrom(outcomes[2], 2)
    ELSE ReturnedFrom(outcomes[1], 1)

\* call_mealdb_api (lines 193-207); outcomes[n] is what the n-th request does
call_mealdb_api(outcomes) ==
    IF outcomes[1].kind = "response" /\ outcomes[1].status = 429
    THEN ReturnedFrom(outcomes[2], 2)
    ELSE ReturnedFrom(outcomes[1], 1)

ApiInit ==
    /\ \E first \in RequestOutcomes, second \in RequestOutcomes :
          acall = <<first, second>>
    /\ aresult = call_mealdb_api(acall)
    /\ IdleCtl /\ IdleParse /\ IdleFilter /\ IdleCheck /\ IdleLoad

\* the data source is given a behaviour for one more request and the call is made
ApiRequest ==
    /\ Len(acall) < MaxRequests
    /\ \E outcome \in RequestOutcomes :
          /\ acall' = Append(acall, outcome)
          /\ aresult' = call_mealdb_api(Append(acall, outcome))
    /\ UNCHANGED <<ctlVars, parseVars, filterVars, checkVars, loadVars>>

SpecApi == ApiInit /\ [][ApiRequest]_vars

-----------------------------------------------------------------------------
(* Question file (src/chefbotv2.py).  The file is qcall = [file, data]:    *)
(* file says what open and json.load make of it, data is the decoded list. *)
(* An item of the list is a record [text, positive_tag, negative_tag,      *)
(* category, phase] in which a key the item lacks is MissingKey and a JSON *)
(* null is NoneVal, or NotAnObject for an item that is no JSON object.     *)

\* an item that is no JSON object; the exception Question raises
NotAnObject == [isinstance |-> "not a dict"]
ValueError == [raised |-> "ValueError"]

\* isinstance(v, str) for the values of the model
IsStr(v) == v # NoneVal /\ v # MissingKey

\* item.get(key): None for a key the item lacks
ItemGet(v) == IF v = MissingKey THEN NoneVal ELSE v

\* Question(text, positive_tag, negative_tag, category, phase): the object, or ValueError
Question(text, positive_tag, negative_tag, category, phase) ==
    IF ~IsStr(text) \/ text = "" THEN ValueError
    ELSE IF ~IsStr(positive_tag) \/ positive_tag = "" THEN ValueError
    ELSE IF phase \notin {"initial", "secondary"} THEN ValueError
    ELSE [text |-> text,
          positive_tag |-> Lower(positive_tag),
          negative_tag |-> IF IsStr(negative_tag) THEN Lower(negative_tag) ELSE NoneVal,
          category |-> IF IsStr(category) THEN Lower(category) ELSE NoneVal,
          phase |-> phase]

\* the loop body of load_questions_from_json for one item
LoadedItem(questions_list, item) ==
    IF item = NotAnObject
       \/ item.text = MissingKey \/ item.positive_tag = MissingKey \/ item.phase = MissingKey
    THEN questions_list
    ELSE LET question_obj == Question(item.text, item.positive_tag, ItemGet(item.negative_tag),
                                      ItemGet(item.category), item.phase)
         IN IF question_obj = ValueError THEN questions_list
            ELSE Append(questions_list, question_obj)

\* the loop giving up the whole list at the first item it cannot build
RECURSIVE LoadedItemsAllOrNothing(_, _)
LoadedItemsAllOrNothing(questions_list, data) ==
    IF data = <<>> THEN questions_list
    ELSE IF LoadedItem(questions_list, Head(data)) = questions_list THEN <<>>
    ELSE LoadedItemsAllOrNothing(LoadedItem(questions_list, Head(data)), Tail(data))

\* the loop of lines 382-397
RECURSIVE LoadedItems(_, _)
LoadedItems(questions_list, data) ==
    IF data = <<>> THEN questions_list
    ELSE LoadedItems(LoadedItem(questions_list, Head(data)), Tail(data))

\* load_questions_from_json(filepath)
load_questions_from_json(call) ==
    IF call.file # "list" THEN <<>> ELSE LoadedItems(<<>>, call.data)

MaxRecords == 3

\* what a question file can be: absent, not JSON, a JSON value that is no list, a list
QuestionFiles == {"FileNotFoundError", "JSONDecodeError", "object", "list"}

QuestionItems ==
    [text : {MissingKey, NoneVal, "", "Something sweet?"},
     positive_tag : {MissingKey, "", "Sweet"},
     negative_tag : {MissingKey},
     category : {"Taste"},
     phase : {MissingKey, "initial", "secondary", "dessert"}]
    \cup {NotAnObject}

LoadInit ==
    /\ \E file \in QuestionFiles : qcall = [file |-> file, data |-> <<>>]
    /\ qresult = load_questions_from_json(qcall)
    /\ IdleCtl /\ IdleParse /\ IdleFilter /\ IdleCheck /\ IdleApi

\* the list of the file gains an item and the file is loaded
LoadQuestions ==
    /\ qcall.file = "list"
    /\ Len(qcall.data) < MaxRecords
    /\ \E item \in QuestionItems :
          /\ qcall' = [qcall EXCEPT !.data = Append(@, item)]
          /\ qresult' = load_questions_from_json([qcall EXCEPT !.data = Append(@, item)])
    /\ UNCHANGED <<ctlVars, parseVars, filterVars, checkVars, apiVars>>

SpecLoad == LoadInit /\ [][LoadQuestions]_vars

-----------------------------------------------------------------------------
(* Filter harness: a candidate list grows by one summary and is filtered   *)
(* against a small data source.                                            *)

MaxMeals == 2

MEAL_DB ==
    [id \in {"1", "2", "3", "4"} |->
        CASE id = "1" -> [idMeal |-> "1", strMeal |-> "Chicken Soup", strCategory |-> "Chicken",
                          strArea |-> "Italian", strInstructions |-> "Simmer.",
                          ingredients |-> <<"Chicken broth", " Onion ">>]
          [] id = "2" -> [idMeal |-> "2", strMeal |-> "Garden Soup", strCategory |-> "Vegetarian",
                          strArea |-> "Mexican", strInstructions |-> "Simmer.",
                          ingredients |-> <<"vegetable broth", "", NoneVal>>]
          [] id = "3" -> [idMeal |-> "3", strMeal |-> "Mushroom Risotto", strCategory |-> "Side",
                          strArea |-> "Italian", strInstructions |-> "Simmer.",
                          ingredients |-> <<"Mushrooms", "Rice">>]
          [] id = "4" -> [idMeal |-> "4", strMeal |-> "Dish of the day", strCategory |-> NoneVal,
                          strArea |-> NoneVal, strInstructions |-> NoneVal,
                          ingredients |-> <<"rice", NoneVal>>]]

Summary(id) == [idMeal |-> id, strMeal |-> IF id \in DOMAIN MEAL_DB THEN MEAL_DB[id].strMeal
                                           ELSE "Unnamed"]

Summaries == {Summary(id) : id \in DOMAIN MEAL_DB \cup {NoneVal}}

AVAILABLE_LISTS ==
    [categories |-> {"dessert", "chicken", "side", "vegetarian"},
     areas |-> {"italian", "mexican"},
     ingredients |-> {"chicken", "rice"}]
EMPTY_LISTS == [categories |-> {}, areas |-> {}, ingredients |-> {}]
FetchedLists == {AVAILABLE_LISTS, EMPTY_LISTS}

NoPrefs == [k \in {"cuisine", "ingredient", "category", "dietary", "dislikes", "texture"} |-> {}]

FilterPreferences ==
    { NoPrefs,
      [NoPrefs EXCEPT !.cuisine = {"italian"}],
      [NoPrefs EXCEPT !.ingredient = {"rice"}],
      [NoPrefs EXCEPT !.category = {"chicken"}],
      [NoPrefs EXCEPT !.cuisine = {"italian"}, !.ingredient = {"rice"}],
      [NoPrefs EXCEPT !.dietary = {"vegetarian"}],
      [NoPrefs EXCEPT !.dislikes = {"mushrooms"}],
      [NoPrefs EXCEPT !.cuisine = {"italian"}, !.dietary = {"vegetarian"},
                      !.dislikes = {"mushrooms"}] }

SearchTypes == {"cuisine", "ingredient", "category", "random"}

\* which lookups of a call fail: none, or the first one
FailingLookups == {{}, {1}}

FilterResult(call) ==
    filter_meal_results(call.meals, call.prefs, PREFERENCE_MAP, call.lists,
                        call.force, call.initial, [db |-> MEAL_DB, fails |-> call.fails])

FilterInit ==
    /\ \E prefs \in FilterPreferences, force \in BOOLEAN, initial \in SearchTypes,
          fails \in FailingLookups, lists \in FetchedLists :
          fcall = [meals |-> <<>>, prefs |-> prefs, force |-> force,
                   initial |-> initial, fails |-> fails, lists |-> lists]
    /\ fresult = FilterResult(fcall)
    /\ IdleCtl /\ IdleParse /\ IdleCheck /\ IdleApi /\ IdleLoad

\* the candidate list gains a summary and is filtered
FilterCandidates ==
    /\ Len(fcall.meals) < MaxMeals
    /\ \E m \in Summaries :
          LET call == [fcall EXCEPT !.meals = Append(@, m)]
          IN fcall' = call /\ fresult' = FilterResult(call)
    /\ UNCHANGED <<ctlVars, parseVars, checkVars, apiVars, loadVars>>

FilterNext == FilterCandidates

SpecFilter == FilterInit /\ [][FilterNext]_vars

-----------------------------------------------------------------------------
(* The dialogue controller, chatbot_state_machine.  The environment is the *)
(* user (the lines typed at the prompts) and TheMealDB (the responses).    *)

MaxTurns == 2
MaxReturns == 1

\* the free-text answers the user may give, as analysed utterances
UtteranceShapes ==
    { << Shape("italian", "italian", "ROOT", 0, "ADJ") >>,
      << Shape("italian", "italian", "amod", 1, "ADJ"),
         Shape("mexican", "mexican", "ROOT", 0, "ADJ") >>,
      << Shape("mexican", "mexican", "amod", 1, "ADJ"),
         Shape("chicken", "chicken", "ROOT", 0, "NOUN") >>,
      << Shape("no", "no", "neg", 1, "DET"),
         Shape("chicken", "chicken", "ROOT", 0, "NOUN") >>,
      << Shape("dessert", "dessert", "ROOT", 0, "NOUN") >>,
      << Shape("vegetarian", "vegetarian", "ROOT", 0, "ADJ") >>,
      << Shape("what", "what", "ROOT", 0, "PRON") >> }

UtteranceDocs == {BuildDoc(shapes) : shapes \in UtteranceShapes}
UtteranceLines == {DocText(doc) : doc \in UtteranceDocs}

\* NLP(text): the analysis of a known utterance; any other line is one token
NLP(text) ==
    IF text \in UtteranceLines THEN CHOOSE doc \in UtteranceDocs : DocText(doc) = text
    ELSE IF text = "" THEN <<>>
    ELSE <<Tok(text, FALSE, text, "ROOT", 1, "X")>>

\* the lines typed at each prompt.  The session is bounded by its turns: the
\* free-text answers (n.said of them so far) and the commands that send the
\* dialogue back (a refused confirmation, retry, start over, search again;
\* n.back of them so far).
Turns(n, lines) == IF n.said < MaxTurns THEN lines ELSE {}
Returns(n, lines) == IF n.back < MaxReturns THEN lines ELSE {}
AnswerLines(n) == {"quit", " Quit ", "skip", "Any", ""} \cup Turns(n, UtteranceLines)
ChoiceLines(n) == {"quit", "QUIT", "skip"} \cup Turns(n, UtteranceLines)
ConfirmLines(n) == {"yes", "quit", " Quit "} \cup Returns(n, {"no"})
RetryLines(n) == {"quit", "bye"} \cup Returns(n, {"retry", "start over"})
DetailLines(n) == {"quit", "more", "1", "0", "x"} \cup Returns(n, {"search again", "start over"})
LooksGoodLines == {"yes", "quit"}
TurnLines == UtteranceLines

\* what TheMealDB may answer
NoMeals == <<>>
FilterResponses ==
    { NoMeals,
      <<Summary("2"), Summary("3"), Summary("1"), Summary("2"), Summary("3"), Summary("2")>>,
      <<Summary("4"), Summary(MissingKey)>> }
RandomResponses ==
    { <<NoMeals, NoMeals, NoMeals, NoMeals, NoMeals>>,
      <<NoMeals, <<Summary("2")>>, <<Summary("2")>>, <<Summary("1")>>, NoMeals>>,
      <<<<Summary(MissingKey)>>, NoMeals, NoMeals, <<Summary("2")>>, NoMeals>> }

PrefKeys(pm) == {k \in SeqToSet(PMKeys(pm)) : ~IsKnownGroup(k) /\ k # "flavor"}
EmptyPreferences(pm) == [k \in PrefKeys(pm) |-> {}]
SkipWords == {"skip", "any", "no", "none", ""}
NoInput == [prompt |-> "", line |-> ""]
Read(prompt, line) == [prompt |-> prompt, line |-> line]

\* get_next_secondary_question_state with the answered marks of the dislikes and
\* dietary questions exchanged
NextSecondaryStateMarksExchanged(current_asked_set) ==
    IF "category" \notin current_asked_set THEN "ASKING_CATEGORY"
    ELSE IF "dietary" \notin current_asked_set THEN "ASKING_DISLIKES"
    ELSE IF "dislikes" \notin current_asked_set THEN "ASKING_DIETARY"
    ELSE "READY_TO_SEARCH"

\* get_next_secondary_question_state (lines 400-408)
get_next_secondary_question_state(current_asked_set) ==
    IF "category" \notin current_asked_set THEN "ASKING_CATEGORY"
    ELSE IF "dislikes" \notin current_asked_set THEN "ASKING_DISLIKES"
    ELSE IF "dietary" \notin current_asked_set THEN "ASKING_DIETARY"
    ELSE "READY_TO_SEARCH"

\* the state after construction (lines 374-385)
Init ==
    /\ current_state = "START"
    /\ preferences = EmptyPreferences(PREFERENCE_MAP)
    /\ asked_this_session = {}
    /\ clarification_data = <<>>
    /\ last_intent_data = <<>>
    /\ last_results = <<>>
    /\ displayed_meals = <<>>
    /\ available_lists = EMPTY_LISTS
    /\ last_input = NoInput
    /\ search_log = <<>>
    /\ n_turns = [said |-> 0, back |-> 0]
    /\ IdleParse /\ IdleFilter /\ IdleCheck /\ IdleApi /\ IdleLoad

harnessVars == <<pcall, presult, fcall, fresult, ccall, cresult, acall, aresult,
                 qcall, qresult>>

Start ==
    /\ current_state = "START"
    /\ current_state' = "FETCHING_LISTS"
    /\ last_input' = NoInput
    /\ search_log' = <<>>
    /\ UNCHANGED <<preferences, asked_this_session, clarification_data, last_intent_data,
                   last_results, displayed_meals, available_lists, n_turns,
                   harnessVars>>

FetchingLists ==
    /\ current_state = "FETCHING_LISTS"
    /\ \E lists \in FetchedLists : available_lists' = lists
    /\ current_state' = "ASKING_CUISINE_INGREDIENT"
    /\ last_input' = NoInput
    /\ search_log' = <<>>
    /\ UNCHANGED <<preferences, asked_this_session, clarification_data, last_intent_data,
                   last_results, displayed_meals, n_turns, harnessVars>>

\* the turns taken once the line is read
Answered(line) ==
    [said |-> IF Lower(Strip(line)) \in TurnLines THEN n_turns.said + 1 ELSE n_turns.said,
     back |-> IF Lower(Strip(line)) \in {"no", "retry", "start over", "search again"}
              THEN n_turns.back + 1 ELSE n_turns.back]

\* the merge loop never reporting a collision
RECURSIVE MergePrimaryNeverColliding(_, _, _)
MergePrimaryNeverColliding(m, entities, key_types) ==
    IF key_types = <<>> THEN m
    ELSE LET key_type == Head(key_types)
             current_vals == PrefGet(m.prefs, key_type)
             combined_vals == current_vals \cup EntGet(entities, key_type)
             merged == [prefs |-> [m.prefs EXCEPT ![key_type] = combined_vals],
                        asked |-> m.asked \cup {key_type},
                        clar |-> <<>>]
         IN IF EntGet(entities, key_type) = {}
            THEN MergePrimaryNeverColliding(m, entities, Tail(key_types))
            ELSE MergePrimaryNeverColliding(merged, entities, Tail(key_types))

\* the merge loop of lines 447-457 over the remaining key types:
\* m = [prefs, asked, clar], clar = <<>> while no collision was met
RECURSIVE MergePrimary(_, _, _)
MergePrimary(m, entities, key_types) ==
    IF key_types = <<>> THEN m
    ELSE LET key_type == Head(key_types)
             current_vals == PrefGet(m.prefs, key_type)
             combined_vals == current_vals \cup EntGet(entities, key_type)
             merged == [prefs |-> [m.prefs EXCEPT ![key_type] = combined_vals],
                        asked |-> m.asked \cup {key_type},
                        clar |-> IF Cardinality(combined_vals) > 1
                                 THEN [type |-> key_type, options |-> combined_vals,
                                       original_prefs |-> current_vals]
                                 ELSE <<>>]
         IN IF EntGet(entities, key_type) = {} THEN MergePrimary(m, entities, Tail(key_types))
            ELSE IF merged.clar # <<>> THEN merged
            ELSE MergePrimary(merged, entities, Tail(key_types))

\* ASKING_CUISINE_INGREDIENT (lines 421-466)
AskingCuisineIngredient ==
    /\ current_state = "ASKING_CUISINE_INGREDIENT"
    /\ \E line \in AnswerLines(n_turns) :
       \E user_input \in {Strip(line)} :
       \E parsed_data \in {parse_input_nlp(NLP(Lower(user_input)), PREFERENCE_MAP,
                                            <<"cuisine", "ingredient">>)} :
       \E m \in {IF parsed_data.intent = "preference"
                 THEN MergePrimary([prefs |-> preferences, asked |-> asked_this_session,
                                    clar |-> <<>>],
                                   parsed_data.entities, <<"cuisine", "ingredient">>)
                 ELSE [prefs |-> preferences, asked |-> asked_this_session,
                       clar |-> <<>>]} :
          LET intent == parsed_data.intent
              asked_all == m.asked \cup {"cuisine", "ingredient"}
          IN /\ last_input' = Read("ASKING_CUISINE_INGREDIENT", line)
             /\ n_turns' = Answered(line)
             /\ IF Lower(user_input) = "quit"
                THEN /\ current_state' = "EXITING"
                     /\ UNCHANGED <<preferences, asked_this_session, clarification_data,
                                    last_intent_data>>
                ELSE IF Lower(user_input) \in SkipWords
                THEN /\ asked_this_session' = asked_this_session \cup {"cuisine", "ingredient"}
                     /\ current_state' = get_next_secondary_question_state(asked_this_session')
                     /\ UNCHANGED <<preferences, clarification_data, last_intent_data>>
                ELSE /\ last_intent_data' = parsed_data
                     /\ IF intent = "question"
                        THEN UNCHANGED <<current_state, preferences, asked_this_session,
                                         clarification_data>>
                        ELSE IF intent \in {"negation", "dislike_statement"}
                        THEN /\ current_state' = "HANDLE_NEGATION"
                             /\ UNCHANGED <<preferences, asked_this_session, clarification_data>>
                        ELSE IF m.clar # <<>>
                        THEN /\ preferences' = m.prefs
                             /\ asked_this_session' = m.asked
                             /\ clarification_data' = m.clar
                             /\ current_state' = "CLARIFY_PREFERENCE"
                        ELSE /\ preferences' = m.prefs
                             /\ asked_this_session' = asked_all
                             /\ current_state' = get_next_secondary_question_state(asked_all)
                             /\ UNCHANGED clarification_data
    /\ search_log' = <<>>
    /\ UNCHANGED <<last_results, displayed_meals, available_lists, harnessVars>>

\* pref_type_details (lines 470-474): the category a secondary question asks for
CurrentPrefType(state) ==
    CASE state = "ASKING_CATEGORY" -> "category"
      [] state = "ASKING_DIETARY" -> "dietary"
      [] state = "ASKING_DISLIKES" -> "dislikes"

\* the secondary questions with a skip that moves on without marking the phase
AskingSecondarySkipUnmarked ==
    /\ current_state \in {"ASKING_CATEGORY", "ASKING_DIETARY", "ASKING_DISLIKES"}
    /\ \E line \in AnswerLines(n_turns) :
       \E current_pref_type \in {CurrentPrefType(current_state)} :
       \E user_input \in {Strip(line)} :
       \E parsed_data \in {parse_input_nlp(NLP(Lower(user_input)), PREFERENCE_MAP,
                                            <<current_pref_type>>)} :
          LET intent == parsed_data.intent
              vals == EntGet(parsed_data.entities, current_pref_type)
              current_vals == PrefGet(preferences, current_pref_type)
              combined_vals == current_vals \cup vals
              asked == asked_this_session \cup {current_pref_type}
          IN /\ last_input' = Read(current_state, line)
             /\ n_turns' = Answered(line)
             /\ IF Lower(user_input) = "quit"
                THEN /\ current_state' = "EXITING"
                     /\ UNCHANGED <<preferences, asked_this_session, clarification_data,
                                    last_intent_data>>
                ELSE IF Lower(user_input) \in SkipWords
                THEN /\ asked_this_session' = asked_this_session
                     /\ current_state' = get_next_secondary_question_state(asked)
                     /\ UNCHANGED <<preferences, clarification_data, last_intent_data>>
                ELSE /\ last_intent_data' = parsed_data
                     /\ IF intent = "question"
                        THEN UNCHANGED <<current_state, preferences, asked_this_session,
                                         clarification_data>>
                        ELSE IF \/ current_pref_type = "dislikes"
                                \/ intent \in {"negation", "dislike_statement"}
                        THEN /\ current_state' = "HANDLE_NEGATION"
                             /\ UNCHANGED <<preferences, asked_this_session, clarification_data>>
                        ELSE IF intent = "preference" /\ vals # {}
                        THEN /\ preferences' = [preferences EXCEPT
                                                   ![current_pref_type] = combined_vals]
                             /\ asked_this_session' = asked
                             /\ IF current_pref_type = "category"
                                   /\ Cardinality(combined_vals) > 1
                                THEN /\ clarification_data' =
                                            [type |-> current_pref_type,
                                             options |-> combined_vals,
                                             original_prefs |-> current_vals]
                                     /\ current_state' = "CLARIFY_PREFERENCE"
                                ELSE /\ current_state' = get_next_secondary_question_state(asked)
                                     /\ UNCHANGED clarification_data
                        ELSE /\ asked_this_session' = asked
                             /\ current_state' = get_next_secondary_question_state(asked)
                             /\ UNCHANGED <<preferences, clarification_data>>
    /\ search_log' = <<>>
    /\ UNCHANGED <<last_results, displayed_meals, available_lists, harnessVars>>

\* the secondary questions storing the tags an answer holds for other categories
AskingSecondaryStoringOthers ==
    /\ current_state \in {"ASKING_CATEGORY", "ASKING_DIETARY", "ASKING_DISLIKES"}
    /\ \E line \in AnswerLines(n_turns) :
       \E current_pref_type \in {CurrentPrefType(current_state)} :
       \E user_input \in {Strip(line)} :
       \E parsed_data \in {parse_input_nlp(NLP(Lower(user_input)), PREFERENCE_MAP,
                                            <<current_pref_type>>)} :
          LET intent == parsed_data.intent
              vals == EntGet(parsed_data.entities, current_pref_type)
              current_vals == PrefGet(preferences, current_pref_type)
              combined_vals == current_vals \cup vals
              asked == asked_this_session \cup {current_pref_type}
          IN /\ last_input' = Read(current_state, line)
             /\ n_turns' = Answered(line)
             /\ IF Lower(user_input) = "quit"
                THEN /\ current_state' = "EXITING"
                     /\ UNCHANGED <<preferences, asked_this_session, clarification_data,
                                    last_intent_data>>
                ELSE IF Lower(user_input) \in SkipWords
                THEN /\ asked_this_session' = asked
                     /\ current_state' = get_next_secondary_question_state(asked)
                     /\ UNCHANGED <<preferences, clarification_data, last_intent_data>>
                ELSE /\ last_intent_data' = parsed_data
                     /\ IF intent = "question"
                        THEN UNCHANGED <<current_state, preferences, asked_this_session,
                                         clarification_data>>
                        ELSE IF \/ current_pref_type = "dislikes"
                                \/ intent \in {"negation", "dislike_statement"}
                        THEN /\ current_state' = "HANDLE_NEGATION"
                             /\ UNCHANGED <<preferences, asked_this_session, clarification_data>>
                        ELSE IF intent = "preference" /\ vals # {}
                        THEN /\ preferences' = [preferences EXCEPT
                                                   ![current_pref_type] = combined_vals]
                             /\ asked_this_session' = asked
                             /\ IF current_pref_type = "category"
                                   /\ Cardinality(combined_vals) > 1
                                THEN /\ clarification_data' =
                                            [type |-> current_pref_type,
                                             options |-> combined_vals,
                                             original_prefs |-> current_vals]
                                     /\ current_state' = "CLARIFY_PREFERENCE"
                                ELSE /\ current_state' = get_next_secondary_question_state(asked)
                                     /\ UNCHANGED clarification_data
                        ELSE /\ asked_this_session' = asked
                             /\ current_state' = get_next_secondary_question_state(asked)
                             /\ preferences' =
                                    [k \in DOMAIN preferences |->
                                        IF k \in {"cuisine", "ingredient", "category", "dietary"}
                                        THEN preferences[k] \cup EntGet(parsed_data.entities, k)
                                        ELSE preferences[k]]
                             /\ UNCHANGED clarification_data
    /\ search_log' = <<>>
    /\ UNCHANGED <<last_results, displayed_meals, available_lists, harnessVars>>

\* ASKING_CATEGORY, ASKING_DIETARY, ASKING_DISLIKES (lines 469-517)
AskingSecondary ==
    /\ current_state \in {"ASKING_CATEGORY", "ASKING_DIETARY", "ASKING_DISLIKES"}
    /\ \E line \in AnswerLines(n_turns) :
       \E current_pref_type \in {CurrentPrefType(current_state)} :
       \E user_input \in {Strip(line)} :
       \E parsed_data \in {parse_input_nlp(NLP(Lower(user_input)), PREFERENCE_MAP,
                                            <<current_pref_type>>)} :
          LET intent == parsed_data.intent
              vals == EntGet(parsed_data.entities, current_pref_type)
              current_vals == PrefGet(preferences, current_pref_type)
              combined_vals == current_vals \cup vals
              asked == asked_this_session \cup {current_pref_type}
          IN /\ last_input' = Read(current_state, line)
             /\ n_turns' = Answered(line)
             /\ IF Lower(user_input) = "quit"
                THEN /\ current_state' = "EXITING"
                     /\ UNCHANGED <<preferences, asked_this_session, clarification_data,
                                    last_intent_data>>
                ELSE IF Lower(user_input) \in SkipWords
                THEN /\ asked_this_session' = asked
                     /\ current_state' = get_next_secondary_question_state(asked)
                     /\ UNCHANGED <<preferences, clarification_data, last_intent_data>>
                ELSE /\ last_intent_data' = parsed_data
                     /\ IF intent = "question"
                        THEN UNCHANGED <<current_state, preferences, asked_this_session,
                                         clarification_data>>
                        ELSE IF \/ current_pref_type = "dislikes"
                                \/ intent \in {"negation", "dislike_statement"}
                        THEN /\ current_state' = "HANDLE_NEGATION"
                             /\ UNCHANGED <<preferences, asked_this_session, clarification_data>>
                        ELSE IF intent = "preference" /\ vals # {}
                        THEN /\ preferences' = [preferences EXCEPT
                                                   ![current_pref_type] = combined_vals]
                             /\ asked_this_session' = asked
                             /\ IF current_pref_type = "category"
                                   /\ Cardinality(combined_vals) > 1
                                THEN /\ clarification_data' =
                                            [type |-> current_pref_type,
                                             options |-> combined_vals,
                                             original_prefs |-> current_vals]
                                     /\ current_state' = "CLARIFY_PREFERENCE"
                                ELSE /\ current_state' = get_next_secondary_question_state(asked)
                                     /\ UNCHANGED clarification_data
                        ELSE /\ asked_this_session' = asked
                             /\ current_state' = get_next_secondary_question_state(asked)
                             /\ UNCHANGED <<preferences, clarification_data>>
    /\ search_log' = <<>>
    /\ UNCHANGED <<last_results, displayed_meals, available_lists, harnessVars>>

UnionOf(sets) == UNION sets

\* items_to_mark_as_disliked that collects the negated and dislikes buckets only
ItemsNegatedOrDisliked(intent_data) ==
    LET entities == IF intent_data = <<>> THEN <<>> ELSE intent_data.entities
    IN UnionOf({entities[k] : k \in DOMAIN entities \cap {"negated", "dislikes"}})

\* items_to_mark_as_disliked (lines 520-527)
ItemsToMarkAsDisliked(intent_data) ==
    LET entities == IF intent_data = <<>> THEN <<>> ELSE intent_data.entities
    IN UnionOf({entities[k] : k \in DOMAIN entities \ {"attributes", "flavor"}})

\* the loop of lines 531-538 with a disliked item that is flipped: one the
\* dislikes hold already is taken out of them
MarkDislikedFlipping(prefs, items) ==
    [k \in DOMAIN prefs |->
        IF k = "dislikes" THEN (prefs[k] \ items) \cup (items \ prefs[k])
        ELSE IF k \in {"cuisine", "ingredient", "category", "dietary"}
        THEN prefs[k] \ items
        ELSE prefs[k]]

\* the loop of lines 531-538: every item joins the dislikes unless they hold it,
\* and leaves the four positive categories
MarkDisliked(prefs, items) ==
    [k \in DOMAIN prefs |->
        IF k = "dislikes" THEN prefs[k] \cup items
        ELSE IF k \in {"cuisine", "ingredient", "category", "dietary"}
        THEN prefs[k] \ items
        ELSE prefs[k]]

\* HANDLE_NEGATION (lines 519-543)
HandleNegation ==
    /\ current_state = "HANDLE_NEGATION"
    /\ LET items == ItemsToMarkAsDisliked(last_intent_data)
           asked == asked_this_session \cup {"dislikes"}
       IN /\ preferences' = MarkDisliked(preferences, items)
          /\ asked_this_session' = asked
          /\ current_state' = get_next_secondary_question_state(asked)
    /\ last_input' = NoInput
    /\ search_log' = <<>>
    /\ UNCHANGED <<clarification_data, last_intent_data, last_results, displayed_meals,
                   available_lists, n_turns, harnessVars>>

\* CLARIFY_PREFERENCE that keeps the colliding options when the choice matches
\* none of them
ClarifyKeepingOptions ==
    /\ current_state = "CLARIFY_PREFERENCE"
    /\ IF clarification_data = <<>>
       THEN /\ current_state' = "ASKING_CUISINE_INGREDIENT"
            /\ last_input' = NoInput
            /\ UNCHANGED <<preferences, asked_this_session, clarification_data, n_turns>>
       ELSE \E line \in ChoiceLines(n_turns) :
            \E pref_type \in {clarification_data.type} :
            \E user_input \in {Strip(line)} :
            \E parsed_clarification \in {parse_input_nlp(NLP(Lower(user_input)),
                                                         PREFERENCE_MAP, <<pref_type>>)} :
               LET options == clarification_data.options
                   matches == EntGet(parsed_clarification.entities, pref_type) \cap options
                   asked == asked_this_session \cup {pref_type}
               IN /\ last_input' = Read("CLARIFY_PREFERENCE", line)
                  /\ n_turns' = Answered(line)
                  /\ IF Lower(user_input) = "quit"
                     THEN /\ current_state' = "EXITING"
                          /\ UNCHANGED <<preferences, asked_this_session, clarification_data>>
                     ELSE /\ \/ \E best_match \in matches :
                                   preferences' = [preferences EXCEPT ![pref_type] = {best_match}]
                             \/ /\ matches = {}
                                /\ preferences' = preferences
                          /\ clarification_data' = <<>>
                          /\ asked_this_session' = asked
                          /\ current_state' = get_next_secondary_question_state(asked)
    /\ search_log' = <<>>
    /\ UNCHANGED <<last_intent_data, last_results, displayed_meals, available_lists,
                   harnessVars>>

\* CLARIFY_PREFERENCE (lines 545-562)
ClarifyPreference ==
    /\ current_state = "CLARIFY_PREFERENCE"
    /\ IF clarification_data = <<>>
       THEN /\ current_state' = "ASKING_CUISINE_INGREDIENT"
            /\ last_input' = NoInput
            /\ UNCHANGED <<preferences, asked_this_session, clarification_data, n_turns>>
       ELSE \E line \in ChoiceLines(n_turns) :
            \E pref_type \in {clarification_data.type} :
            \E user_input \in {Strip(line)} :
            \E parsed_clarification \in {parse_input_nlp(NLP(Lower(user_input)),
                                                         PREFERENCE_MAP, <<pref_type>>)} :
               LET options == clarification_data.options
                   matches == EntGet(parsed_clarification.entities, pref_type) \cap options
                   asked == asked_this_session \cup {pref_type}
               IN /\ last_input' = Read("CLARIFY_PREFERENCE", line)
                  /\ n_turns' = Answered(line)
                  /\ IF Lower(user_input) = "quit"
                     THEN /\ current_state' = "EXITING"
                          /\ UNCHANGED <<preferences, asked_this_session, clarification_data>>
                     ELSE /\ \/ \E best_match \in matches :
                                   preferences' = [preferences EXCEPT ![pref_type] = {best_match}]
                             \/ /\ matches = {}
                                /\ preferences' = [preferences EXCEPT ![pref_type] =
                                                      clarification_data.original_prefs]
                          /\ clarification_data' = <<>>
                          /\ asked_this_session' = asked
                          /\ current_state' = get_next_secondary_question_state(asked)
    /\ search_log' = <<>>
    /\ UNCHANGED <<last_intent_data, last_results, displayed_meals, available_lists,
                   harnessVars>>

PrimaryKeys == {"ingredient", "category", "cuisine"}

\* has_primary_search_term and positive_prefs_printed (lines 566-572)
HasPrimarySearchTerm(prefs) == \E k \in DOMAIN prefs \cap PrimaryKeys : prefs[k] # {}
PositivePrefsPrinted(prefs) ==
    \E k \in DOMAIN prefs \ {"dislikes", "_primary_search_keys", "flavor"} : prefs[k] # {}

\* line 578: the confirmation prompt is skipped and the primary question re-asked
LoopsBackForPrimary(prefs) ==
    /\ ~HasPrimarySearchTerm(prefs)
    /\ ~(PrefGet(prefs, "dislikes") # {} /\ ~PositivePrefsPrinted(prefs))

\* READY_TO_SEARCH whose refused confirmation keeps the answered set
ReadyToSearchKeepingAnswered ==
    /\ current_state = "READY_TO_SEARCH"
    /\ IF LoopsBackForPrimary(preferences)
       THEN /\ asked_this_session' = asked_this_session \ {"cuisine", "ingredient", "category"}
            /\ current_state' = "ASKING_CUISINE_INGREDIENT"
            /\ last_input' = NoInput
            /\ UNCHANGED n_turns
       ELSE \E line \in ConfirmLines(n_turns) :
               LET search_confirm == Lower(Strip(line))
               IN /\ last_input' = Read("READY_TO_SEARCH", line)
                  /\ n_turns' = Answered(line)
                  /\ IF search_confirm = "yes"
                     THEN current_state' = "SEARCHING" /\ UNCHANGED asked_this_session
                     ELSE IF search_confirm = "quit"
                     THEN current_state' = "EXITING" /\ UNCHANGED asked_this_session
                     ELSE /\ asked_this_session' = asked_this_session
                          /\ current_state' = "ASKING_CUISINE_INGREDIENT"
    /\ search_log' = <<>>
    /\ UNCHANGED <<preferences, clarification_data, last_intent_data, last_results,
                   displayed_meals, available_lists, harnessVars>>

\* READY_TO_SEARCH (lines 564-586)
ReadyToSearch ==
    /\ current_state = "READY_TO_SEARCH"
    /\ IF LoopsBackForPrimary(preferences)
       THEN /\ asked_this_session' = asked_this_session \ {"cuisine", "ingredient", "category"}
            /\ current_state' = "ASKING_CUISINE_INGREDIENT"
            /\ last_input' = NoInput
            /\ UNCHANGED n_turns
       ELSE \E line \in ConfirmLines(n_turns) :
               LET search_confirm == Lower(Strip(line))
               IN /\ last_input' = Read("READY_TO_SEARCH", line)
                  /\ n_turns' = Answered(line)
                  /\ IF search_confirm = "yes"
                     THEN current_state' = "SEARCHING" /\ UNCHANGED asked_this_session
                     ELSE IF search_confirm = "quit"
                     THEN current_state' = "EXITING" /\ UNCHANGED asked_this_session
                     ELSE /\ asked_this_session' = {}
                          /\ current_state' = "ASKING_CUISINE_INGREDIENT"
    /\ search_log' = <<>>
    /\ UNCHANGED <<preferences, clarification_data, last_intent_data, last_results,
                   displayed_meals, available_lists, harnessVars>>

\* preferences.get(key)[0] of a list built from a set: any element, or None
FirstOf(prefs, key) == IF PrefGet(prefs, key) = {} THEN {NoneVal} ELSE PrefGet(prefs, key)

\* next(... for kw in kws if ...): the first member of seq that lies in set, or NoneVal
RECURSIVE FirstIn(_, _)
FirstIn(seq, set) ==
    IF seq = <<>> THEN NoneVal
    ELSE IF Lower(Head(seq)) \in set THEN Lower(Head(seq))
    ELSE FirstIn(Tail(seq), set)

\* get_api_val (lines 595-599)
get_api_val(p_key, p_map_type, vocabulary) ==
    LET kws == TagGet(PMGet(PREFERENCE_MAP, p_map_type), p_key, <<Lower(p_key)>>)
        val == FirstIn(kws, vocabulary)
    IN IF p_key = NoneVal THEN NoneVal
       ELSE IF Truthy(val) THEN val
       ELSE IF Lower(p_key) \in vocabulary THEN Lower(p_key)
       ELSE p_key

\* search_attempts with the ingredient attempt put before the cuisine attempt
SearchAttemptsIngredientFirst(cuisine_key, ingredient_key, category_key, lists) ==
    LET a == get_api_val(cuisine_key, "cuisine", lists.areas)
        i == get_api_val(ingredient_key, "ingredient", lists.ingredients)
        c == get_api_val(category_key, "category", lists.categories)
    IN (IF Truthy(i) THEN <<[type |-> "ingredient", value |-> i, param |-> "i"]>> ELSE <<>>)
       \o (IF Truthy(a) THEN <<[type |-> "cuisine", value |-> a, param |-> "a"]>> ELSE <<>>)
       \o (IF Truthy(c) THEN <<[type |-> "category", value |-> c, param |-> "c"]>> ELSE <<>>)

\* search_attempts (lines 601-608)
SearchAttempts(cuisine_key, ingredient_key, category_key, lists) ==
    LET a == get_api_val(cuisine_key, "cuisine", lists.areas)
        i == get_api_val(ingredient_key, "ingredient", lists.ingredients)
        c == get_api_val(category_key, "category", lists.categories)
    IN (IF Truthy(a) THEN <<[type |-> "cuisine", value |-> a, param |-> "a"]>> ELSE <<>>)
       \o (IF Truthy(i) THEN <<[type |-> "ingredient", value |-> i, param |-> "i"]>> ELSE <<>>)
       \o (IF Truthy(c) THEN <<[type |-> "category", value |-> c, param |-> "c"]>> ELSE <<>>)

RandomFetches == 5

\* the loop of lines 637-641 over the responses of random.php:
\* st = [cands, raised]; meal_list[0]['idMeal'] raises KeyError on a record without id
RECURSIVE RandomCandidates(_, _, _)
RandomCandidates(st, responses, n) ==
    IF n = 0 \/ responses = <<>> \/ st.raised THEN st
    ELSE LET meal_list == Head(responses)
             compared == meal_list # NoMeals /\ st.cands # <<>>
             keyError == compared /\
                         \/ meal_list[1].idMeal = MissingKey
                         \/ \E j \in 1..Len(st.cands) : st.cands[j].idMeal = MissingKey
             fresh == ~compared \/
                      \A j \in 1..Len(st.cands) : st.cands[j].idMeal # meal_list[1].idMeal
         IN RandomCandidates(
                IF keyError THEN [st EXCEPT !.raised = TRUE]
                ELSE IF meal_list # NoMeals /\ fresh
                     THEN [st EXCEPT !.cands = Append(@, meal_list[1])]
                     ELSE st,
                Tail(responses), n - 1)

\* the last lines of SEARCHING entering SHOWING_RESULTS with an empty list too
SearchFinishAlwaysShowing(found_meals, log) ==
    /\ search_log' = log
    /\ IF found_meals # <<>> \/ Len(log) = 1
       THEN /\ last_results' = found_meals
            /\ displayed_meals' = <<>>
            /\ current_state' = "SHOWING_RESULTS"
            /\ last_input' = NoInput
            /\ UNCHANGED <<preferences, asked_this_session, n_turns>>
       ELSE /\ UNCHANGED <<last_results, displayed_meals>>
            /\ \E line \in RetryLines(n_turns) :
                  LET retry == Lower(Strip(line))
                  IN /\ last_input' = Read("SEARCHING", line)
                     /\ n_turns' = Answered(line)
                     /\ IF retry = "start over"
                        THEN /\ preferences' = [k \in DOMAIN preferences \ {"flavor"} |-> {}]
                             /\ asked_this_session' = {}
                             /\ current_state' = "ASKING_CUISINE_INGREDIENT"
                        ELSE IF retry = "retry"
                        THEN /\ asked_this_session' = {}
                             /\ current_state' = "ASKING_CUISINE_INGREDIENT"
                             /\ UNCHANGED preferences
                        ELSE /\ current_state' = "EXITING"
                             /\ UNCHANGED <<preferences, asked_this_session>>

\* the last lines of SEARCHING with 'start over' treated as 'retry'
SearchFinishStartOverKeepingStore(found_meals, log) ==
    /\ search_log' = log
    /\ IF found_meals # <<>>
       THEN /\ last_results' = found_meals
            /\ displayed_meals' = <<>>
            /\ current_state' = "SHOWING_RESULTS"
            /\ last_input' = NoInput
            /\ UNCHANGED <<preferences, asked_this_session, n_turns>>
       ELSE /\ UNCHANGED <<last_results, displayed_meals>>
            /\ \E line \in RetryLines(n_turns) :
                  LET retry == Lower(Strip(line))
                  IN /\ last_input' = Read("SEARCHING", line)
                     /\ n_turns' = Answered(line)
                     /\ IF retry \in {"retry", "start over"}
                        THEN /\ asked_this_session' = {}
                             /\ current_state' = "ASKING_CUISINE_INGREDIENT"
                             /\ UNCHANGED preferences
                        ELSE /\ current_state' = "EXITING"
                             /\ UNCHANGED <<preferences, asked_this_session>>

\* the last lines of SEARCHING (645-652) once found_meals is known
SearchFinish(found_meals, log) ==
    /\ search_log' = log
    /\ IF found_meals # <<>>
       THEN /\ last_results' = found_meals
            /\ displayed_meals' = <<>>
            /\ current_state' = "SHOWING_RESULTS"
            /\ last_input' = NoInput
            /\ UNCHANGED <<preferences, asked_this_session, n_turns>>
       ELSE /\ UNCHANGED <<last_results, displayed_meals>>
            /\ \E line \in RetryLines(n_turns) :
                  LET retry == Lower(Strip(line))
                  IN /\ last_input' = Read("SEARCHING", line)
                     /\ n_turns' = Answered(line)
                     /\ IF retry = "start over"
                        THEN /\ preferences' = [k \in DOMAIN preferences \ {"flavor"} |-> {}]
                             /\ asked_this_session' = {}
                             /\ current_state' = "ASKING_CUISINE_INGREDIENT"
                        ELSE IF retry = "retry"
                        THEN /\ asked_this_session' = {}
                             /\ current_state' = "ASKING_CUISINE_INGREDIENT"
                             /\ UNCHANGED preferences
                        ELSE /\ current_state' = "EXITING"
                             /\ UNCHANGED <<preferences, asked_this_session>>

\* an exception nothing catches ends the program
Uncaught(log) ==
    /\ current_state' = "UNCAUGHT_EXCEPTION"
    /\ search_log' = log
    /\ last_input' = NoInput
    /\ UNCHANGED <<preferences, asked_this_session, last_results, displayed_meals, n_turns>>

\* lines 633-643: the random fallback; the outcomes [found_meals, raised, log] it may have
RandomFallback(prefs, lists, log, fails) ==
    UNION { { [found_meals |-> IF st.raised THEN <<>> ELSE filtered.ret,
               raised |-> st.raised \/ filtered.raised,
               log |-> Append(log, [type |-> "random", value |-> "", param |-> "",
                                    found |-> IF st.raised THEN <<>> ELSE filtered.ret])]
              : filtered \in {filter_meal_results(st.cands, prefs, PREFERENCE_MAP, lists, TRUE,
                                                  "random", [db |-> MEAL_DB, fails |-> fails])} }
            : st \in { RandomCandidates([cands |-> <<>>, raised |-> FALSE], responses,
                                        RandomFetches) : responses \in RandomResponses } }

\* one entry of the search log: the attempt and current_found_meals (line 622)
Attempted(attempt_info, current_found_meals) ==
    [type |-> attempt_info.type, value |-> attempt_info.value, param |-> attempt_info.param,
     found |-> current_found_meals]

\* lines 611-631: the primary attempts, in order, until one yields meals
RECURSIVE TryAttempts(_, _, _, _, _)
TryAttempts(attempts, prefs, lists, log, fails) ==
    IF attempts = <<>> THEN RandomFallback(prefs, lists, log, fails)
    ELSE UNION { UNION { IF filtered.raised \/ filtered.ret # <<>>
                         THEN {[found_meals |-> filtered.ret, raised |-> filtered.raised,
                                log |-> Append(log, Attempted(Head(attempts),
                                                              filtered.ret))]}
                         ELSE TryAttempts(Tail(attempts), prefs, lists,
                                          Append(log, Attempted(Head(attempts), <<>>)),
                                          fails)
                         : filtered \in {filter_meal_results(initial_meals, prefs,
                                                             PREFERENCE_MAP, lists, FALSE,
                                                             Head(attempts).type,
                                                             [db |-> MEAL_DB,
                                                              fails |-> fails])} }
                 : initial_meals \in FilterResponses }

\* SEARCHING (lines 588-653)
Searching ==
    /\ current_state = "SEARCHING"
    /\ \E pref_cuisine_key \in FirstOf(preferences, "cuisine"),
          pref_ingredient_key \in FirstOf(preferences, "ingredient"),
          pref_category_key \in FirstOf(preferences, "category"),
          fails \in FailingLookups :
          \E outcome \in TryAttempts(SearchAttempts(pref_cuisine_key, pref_ingredient_key,
                                                    pref_category_key, available_lists),
                                     preferences, available_lists, <<>>, fails) :
             IF outcome.raised THEN Uncaught(outcome.log)
             ELSE SearchFinish(outcome.found_meals, outcome.log)
    /\ UNCHANGED <<clarification_data, last_intent_data, available_lists, harnessVars>>

max_suggestions == 5

\* SHOWING_RESULTS keeping only the batch it prints
ShowingResultsLastBatchOnly ==
    /\ current_state = "SHOWING_RESULTS"
    /\ LET start_index == Len(displayed_meals)
           last == IF start_index + max_suggestions < Len(last_results)
                   THEN start_index + max_suggestions ELSE Len(last_results)
           next_batch == SubSeq(last_results, start_index + 1, last)
       IN displayed_meals' = next_batch
    /\ current_state' = "GETTING_DETAILS"
    /\ last_input' = NoInput
    /\ search_log' = <<>>
    /\ UNCHANGED <<preferences, asked_this_session, clarification_data, last_intent_data,
                   last_results, available_lists, n_turns, harnessVars>>

\* SHOWING_RESULTS (lines 655-663)
ShowingResults ==
    /\ current_state = "SHOWING_RESULTS"
    /\ LET start_index == Len(displayed_meals)
           last == IF start_index + max_suggestions < Len(last_results)
                   THEN start_index + max_suggestions ELSE Len(last_results)
           next_batch == SubSeq(last_results, start_index + 1, last)
       IN displayed_meals' = displayed_meals \o next_batch
    /\ current_state' = "GETTING_DETAILS"
    /\ last_input' = NoInput
    /\ search_log' = <<>>
    /\ UNCHANGED <<preferences, asked_this_session, clarification_data, last_intent_data,
                   last_results, available_lists, n_turns, harnessVars>>

Digits == <<"0", "1", "2", "3", "4", "5", "6", "7", "8", "9">>

\* str.isdigit() for the lines of the model
IsDigit(s) ==
    /\ Len(s) > 0
    /\ \A i \in 0..(Len(s) - 1) : \E d \in 1..10 : CharAt(s, i) = Digits[d]

\* int(s) for a string of digits
RECURSIVE IntOf(_)
IntOf(s) ==
    IF Len(s) = 0 THEN 0
    ELSE LET last == CharAt(s, Len(s) - 1)
             d == CHOOSE k \in 1..10 : Digits[k] = last
         IN 10 * IntOf(SubSeq(s, 1, Len(s) - 1)) + (d - 1)

\* GETTING_DETAILS (lines 665-697)
GettingDetails ==
    /\ current_state = "GETTING_DETAILS"
    /\ \E line \in DetailLines(n_turns), fails \in FailingLookups :
          LET choice_input == Lower(Strip(line))
              idx == IntOf(choice_input)
              meal_id == displayed_meals[idx].idMeal
              details == get_meal_details([db |-> MEAL_DB, fails |-> fails], meal_id, 1)
              stay == /\ last_input' = Read("GETTING_DETAILS", line)
                      /\ UNCHANGED <<current_state, preferences, asked_this_session>>
          IN /\ n_turns' = Answered(line)
             /\ IF choice_input \in {"quit", "more", "search again"}
                THEN /\ current_state' = CASE choice_input = "quit" -> "EXITING"
                                           [] choice_input = "more" -> "SHOWING_RESULTS"
                                           [] choice_input = "search again" -> "SEARCHING"
                     /\ last_input' = Read("GETTING_DETAILS", line)
                     /\ UNCHANGED <<preferences, asked_this_session>>
                ELSE IF choice_input = "start over"
                THEN /\ preferences' = [k \in DOMAIN preferences \ {"flavor"} |-> {}]
                     /\ asked_this_session' = {}
                     /\ current_state' = "ASKING_CUISINE_INGREDIENT"
                     /\ last_input' = Read("GETTING_DETAILS", line)
                ELSE IF ~IsDigit(choice_input) \/ idx < 1 \/ idx > Len(displayed_meals)
                THEN stay
                ELSE IF meal_id = MissingKey
                THEN /\ current_state' = "UNCAUGHT_EXCEPTION"
                     /\ last_input' = Read("GETTING_DETAILS", line)
                     /\ UNCHANGED <<preferences, asked_this_session>>
                ELSE IF details = NoDetail
                THEN stay
                ELSE IF details.strInstructions = NoneVal
                THEN /\ current_state' = "UNCAUGHT_EXCEPTION"
                     /\ last_input' = Read("GETTING_DETAILS", line)
                     /\ UNCHANGED <<preferences, asked_this_session>>
                ELSE \E answer \in LooksGoodLines :
                        /\ last_input' = Read("LOOKS_GOOD", answer)
                        /\ current_state' = IF Lower(answer) = "yes" THEN "EXITING"
                                            ELSE current_state
                        /\ UNCHANGED <<preferences, asked_this_session>>
    /\ search_log' = <<>>
    /\ UNCHANGED <<clarification_data, last_intent_data, last_results, displayed_meals,
                   available_lists, harnessVars>>

\* ERROR_STATE (lines 699-702).  No statement of the program assigns
\* DialogueState.ERROR_STATE, so the handler is not a step the program takes.
ErrorState ==
    /\ current_state = "ERROR_STATE"
    /\ preferences' = [k \in DOMAIN preferences \ {"flavor"} |-> {}]
    /\ asked_this_session' = {}
    /\ last_intent_data' = <<>>
    /\ current_state' = "START"
    /\ last_input' = NoInput
    /\ search_log' = <<>>
    /\ UNCHANGED <<clarification_data, last_results, displayed_meals, available_lists,
                   n_turns, harnessVars>>

\* one iteration of the loop of line 410
Next ==
    \/ Start
    \/ FetchingLists
    \/ AskingCuisineIngredient
    \/ AskingSecondary
    \/ HandleNegation
    \/ ClarifyPreference
    \/ ReadyToSearch
    \/ Searching
    \/ ShowingResults
    \/ GettingDetails

Spec == Init /\ [][Next]_vars

-----------------------------------------------------------------------------
(* Properties of parse_input_nlp, checked under SpecParse.                 *)

\* the call ran both passes and returned what they collected
Returned == presult.intent \notin {"<KeyError>", "question", "unknown"}
Entities == presult.entities

\* C8 (as claimed): a ParseResult with a non-empty dislikes bucket has intent
\* dislike_statement, also when the utterance yields negated tags as well.
C8_DislikesImpliesDislikeStatement ==
    (Returned /\ "dislikes" \in DOMAIN Entities) => presult.intent = "dislike_statement"

\* C9: a ParseResult with a non-empty negated bucket and no dislikes bucket has
\* intent negation.
C9_NegatedWithoutDislikesIsNegation ==
    (Returned /\ "negated" \in DOMAIN Entities /\ "dislikes" \notin DOMAIN Entities)
        => presult.intent = "negation"

C9_Witness ==
    /\ Len(pcall.doc) > 0
    /\ "negated" \in DOMAIN Entities
    /\ "dislikes" \notin DOMAIN Entities
    /\ presult.intent = "negation"

\* the phrase-pass matches of the call's utterance
CallOccurrences ==
    PhraseOccurrences(LexiconOf(pcall.pm), pcall.asking, DocText(pcall.doc))

\* a match whose span is immediately preceded by a negation marker, the phrase
\* belonging to a category other than dislikes
PrecededByNegationMarker(occ) ==
    LET span == CharSpan(pcall.doc, occ.start, occ.start + Len(occ.item.kw))
    IN /\ occ.item.type # "dislikes"
       /\ span # <<>>
       /\ span[1] > 1
       /\ \/ pcall.doc[span[1] - 1].dep = "neg"
          \/ pcall.doc[span[1] - 1].lemma \in NegLemmas

MarkedOccurrences ==
    {a \in 1..Len(CallOccurrences) : PrecededByNegationMarker(CallOccurrences[a])}

\* the tokens covered by some phrase match
CoveredTokens ==
    UNION {LET o == CallOccurrences[a]
               span == CharSpan(pcall.doc, o.start, o.start + Len(o.item.kw))
           IN IF span = <<>> THEN {} ELSE span[1]..span[2] : a \in 1..Len(CallOccurrences)}

\* an un-negated match of a keyword of tag key in category type: a phrase match
\* that is not negated, or a token outside the phrases that is not negated
HasPlainMatch(type, key) ==
    \/ \E a \in 1..Len(CallOccurrences) :
          LET o == CallOccurrences[a]
          IN /\ o.item.type = type /\ o.item.key = key
             /\ ~IsNegatedPhrase(pcall.doc, DocText(pcall.doc), o.item.kw, o.start)
    \/ \E i \in 1..Len(pcall.doc) :
          /\ i \notin CoveredTokens
          /\ ~IsNegatedToken(pcall.doc, i)
          /\ \E kw \in SeqToSet(TagGet(PMGet(LexiconOf(pcall.pm), type), key, <<>>)) :
                kw = pcall.doc[i].text \/ kw = pcall.doc[i].lemma

\* C10 (as claimed): a multi-word phrase preceded by a negation marker has its tag
\* under negated or dislikes and not under the phrase's home category.
C10_NegatedPhraseNeverInHomeCategory ==
    Returned =>
        \A a \in MarkedOccurrences :
            LET it == CallOccurrences[a].item
            IN /\ it.key \in EntGet(Entities, "negated") \cup EntGet(Entities, "dislikes")
               /\ it.key \notin EntGet(Entities, it.type)

\* C10 (amended): in an utterance that is not question-shaped, the tag is under
\* negated or dislikes, and it is under the home category only when the utterance
\* also holds an un-negated match of one of the tag's keywords (another phrase
\* occurrence, or a token outside the phrases).
C10_NegatedPhraseRecordedPerOccurrence ==
    Returned =>
        \A a \in MarkedOccurrences :
            LET it == CallOccurrences[a].item
            IN /\ it.key \in EntGet(Entities, "negated") \cup EntGet(Entities, "dislikes")
               /\ it.key \in EntGet(Entities, it.type) => HasPlainMatch(it.type, it.key)

C10_Witness ==
    /\ MarkedOccurrences # {}
    /\ \A a \in MarkedOccurrences :
          /\ CallOccurrences[a].item.key \in EntGet(Entities, "negated")
          /\ CallOccurrences[a].item.key \notin EntGet(Entities, CallOccurrences[a].item.type)

\* every tag the result holds in a bucket of tags
RecordedTags == UNION {Entities[k] : k \in DOMAIN Entities \ {"attributes"}}

\* the keywords of the call's lexicon that the single-token pass looks up
CallKeywords ==
    KeywordItems(LexiconOf(pcall.pm), TypesForPhraseCheck(LexiconOf(pcall.pm), pcall.asking))

\* the tags that the surface form or the lemma of one of the tokens is a keyword of
TagsOfTokens(kws, tokens) ==
    {kws[a].key : a \in {b \in 1..Len(kws) : \E i \in tokens :
        kws[b].kw = pcall.doc[i].text \/ kws[b].kw = pcall.doc[i].lemma}}

\* the tags of the matched phrases
PhraseTags(occs) == {occs[a].item.key : a \in 1..Len(occs)}

\* the tags other than a phrase's that a word inside a matched phrase is a keyword
\* of, no token outside the phrases being a keyword of them
TagsOfPhraseWordsOnly(occs, covered) ==
    LET kws == CallKeywords
    IN (TagsOfTokens(kws, covered) \ TagsOfTokens(kws, (1..Len(pcall.doc)) \ covered))
       \ PhraseTags(occs)

\* C11: when the utterance holds a multi-word keyword phrase of tag A and a word
\* of the phrase is a single-word keyword of another tag B, the result records
\* A and does not record B for the tokens of the phrase.
C11_PhraseTokensNotMatchedAgain ==
    Returned =>
        LET occs == CallOccurrences
            recorded == RecordedTags
        IN occs # <<>> =>
              /\ PhraseTags(occs) \subseteq recorded
              /\ TagsOfPhraseWordsOnly(occs, CoveredTokens) \cap recorded = {}

C11_Witness ==
    /\ Returned
    /\ CallOccurrences # <<>>
    /\ TagsOfPhraseWordsOnly(CallOccurrences, CoveredTokens) # {}
    /\ PhraseTags(CallOccurrences) \subseteq RecordedTags

\* C12 (as claimed): with the lexicon {cuisine:{italian:[italian, pasta]},
\* dislikes:{}}, "I don't want italian food" (n't a neg child of want, italian
\* an amod of food) parses to intent negation with entities {negated:{italian}}.
C12_DontWantItalianIsNegation ==
    (pcall.pm = "ITALIAN_MAP" /\ DocText(pcall.doc) = "i don't want italian food")
        => presult = [intent |-> "negation",
                      entities |-> [k \in {"negated"} |-> {"italian"}]]

\* C13: with the same lexicon, "pasta please" asked for a cuisine parses to
\* intent preference with entities {cuisine:{italian}}.
C13_PastaPleaseIsItalian ==
    (pcall.pm = "ITALIAN_MAP" /\ pcall.asking = <<"cuisine">>
        /\ DocText(pcall.doc) = "pasta please")
        => presult = [intent |-> "preference",
                      entities |-> [k \in {"cuisine"} |-> {"italian"}]]

C13_Witness ==
    /\ pcall.pm = "ITALIAN_MAP" /\ pcall.asking = <<"cuisine">>
    /\ DocText(pcall.doc) = "pasta please"
    /\ presult.intent = "preference"
    /\ DOMAIN presult.entities = {"cuisine"}

\* the utterance ends with a question mark or starts with a question word
QuestionShaped ==
    LET text == DocText(pcall.doc)
    IN \/ Len(text) > 0 /\ SubSeq(text, Len(text), Len(text)) = "?"
       \/ Len(pcall.doc) > 0 /\ pcall.doc[1].text \in QUESTION_WORDS

\* C14: with a lexicon that is not empty, a question-shaped utterance parses to
\* intent question with no entities, whatever keywords it holds.
C14_QuestionShapedIsQuestion ==
    (pcall.pm # "EMPTY_MAP" /\ QuestionShaped)
        => presult = [intent |-> "question", entities |-> <<>>]

C14_Witness ==
    /\ pcall.pm # "EMPTY_MAP" /\ QuestionShaped
    /\ TagsOfTokens(CallKeywords, 1..Len(pcall.doc)) # {}
    /\ presult.intent = "question"

\* C15: without a lexicon every utterance, question-shaped ones included, parses
\* to intent unknown with no entities.
C15_NoLexiconIsUnknown ==
    pcall.pm = "EMPTY_MAP" => presult = [intent |-> "unknown", entities |-> <<>>]

C15_Witness ==
    /\ pcall.pm = "EMPTY_MAP" /\ QuestionShaped
    /\ Len(pcall.doc) > 1
    /\ presult.intent = "unknown"

-----------------------------------------------------------------------------
(* Properties of filter_meal_results, checked under SpecFilter.            *)

PrimaryCategories == {"cuisine", "category", "ingredient"}

\* nothing calls for inspection: not forced, no dislikes, no dietary tags, and
\* every primary category holding a tag is the one the search was made by
NothingToInspect ==
    /\ ~fcall.force
    /\ fcall.prefs["dislikes"] = {}
    /\ fcall.prefs["dietary"] = {}
    /\ \A c \in PrimaryCategories : fcall.prefs[c] # {} => fcall.initial = c

\* C5: when nothing calls for inspection the candidate list is returned unchanged
\* (same elements, same order) and no detail is fetched.
C5_FilterIsNoOp ==
    NothingToInspect =>
        /\ fresult.ret = fcall.meals
        /\ fresult.fetched = <<>>
        /\ ~fresult.raised

C5_Witness ==
    /\ NothingToInspect
    /\ fcall.prefs["cuisine"] # {}
    /\ Len(fcall.meals) = 2
    /\ fcall.meals[1].idMeal = NoneVal
    /\ fresult.ret = fcall.meals

\* the ids whose lookup succeeded during the call
FetchedOk ==
    {fresult.fetched[n] : n \in {k \in 1..Len(fresult.fetched) :
        k \notin fcall.fails /\ fresult.fetched[k] \in DOMAIN MEAL_DB}}

\* C6: when details are inspected, every returned candidate has an id whose detail
\* was fetched, and neither check_dislikes nor check_dietary_restrictions holds of
\* that detail; a candidate without id or without fetched detail is not returned.
C6_ReturnedCandidatesPassChecks ==
    (~NothingToInspect /\ ~fresult.raised) =>
        \A i \in 1..Len(fresult.ret) :
            LET id == fresult.ret[i].idMeal
            IN /\ id # NoneVal /\ id # ""
               /\ id \in FetchedOk
               /\ ~check_dislikes(MEAL_DB[id], fcall.prefs, PREFERENCE_MAP)
               /\ ~check_dietary_restrictions(MEAL_DB[id], fcall.prefs, PREFERENCE_MAP)

C6_Witness ==
    /\ ~NothingToInspect
    /\ fcall.prefs["dietary"] # {}
    /\ Len(fcall.meals) = 2
    /\ Len(fresult.ret) = 1
    /\ Len(fresult.fetched) = 2
    /\ fcall.fails = {}

-----------------------------------------------------------------------------
(* Properties of the checkers, checked under SpecCheck.                    *)

CheckedLines == SeqToSet(ccall.detail.ingredients)

ChickenBrothLines == {"1 cup Chicken broth"}
VegetableBrothLines == {"2 cups vegetable broth"}
NonMeatLines == {"1 onion", "cream", "dairy-free cream", "Mushrooms ", NoneVal, "2 eggs",
                 "eggs in vegetable broth", "flour", "gluten-free flour",
                 "tamari soy sauce", "spicy sausage"}

\* C7: with vegetarian active and 'chicken' among the meat keywords, a detail with
\* a chicken broth line is excluded, and a detail whose lines are only vegetable
\* broth and non-meat items is admitted.
C7_ChickenBrothExcludedVegetableBrothAdmitted ==
    ("vegetarian" \in ccall.prefs.dietary
        /\ "chicken" \in GroupKeywords(PREFERENCE_MAP, "known_meats")) =>
        /\ (CheckedLines \cap ChickenBrothLines # {}) => cresult.dietary
        /\ (ccall.prefs.dietary = {"vegetarian"}
               /\ CheckedLines \subseteq VegetableBrothLines \cup NonMeatLines)
             => ~cresult.dietary

C7_Witness ==
    /\ ccall.prefs.dietary = {"vegetarian"}
    /\ ccall.detail.ingredients = <<"2 cups vegetable broth", "1 onion">>
    /\ ~cresult.dietary

-----------------------------------------------------------------------------
(* Properties of the dialogue controller, checked under Spec.              *)

PositiveCategories == {"cuisine", "ingredient", "category", "dietary"}

\* C1 (as claimed): in every reachable state no tag is both in
\* preferences['dislikes'] and in a positive category (cuisine, ingredient,
\* category, dietary).
C1_NoTagDislikedAndPreferred ==
    \A k \in PositiveCategories :
        PrefGet(preferences, k) \cap PrefGet(preferences, "dislikes") = {}

\* C2 (as claimed): at every prompt, a line that is 'quit' up to case makes the
\* next state EXITING.
C2_QuitExitsAtEveryPrompt ==
    (last_input.prompt # "" /\ Lower(last_input.line) = "quit")
        => current_state = "EXITING"

\* C3 (as claimed): the controller is never in SEARCHING while ingredient,
\* category and cuisine are all empty.
C3_SearchingNeedsPrimaryTag ==
    current_state = "SEARCHING" => HasPrimarySearchTerm(preferences)

\* C4: a phase is never asked while it is marked answered: in ASKING_CATEGORY,
\* ASKING_DISLIKES or ASKING_DIETARY the phase's category is not in
\* asked_this_session, and in ASKING_CUISINE_INGREDIENT neither cuisine nor
\* ingredient is.
C4_AskedPhaseIsUnanswered ==
    /\ current_state \in {"ASKING_CATEGORY", "ASKING_DISLIKES", "ASKING_DIETARY"}
          => CurrentPrefType(current_state) \notin asked_this_session
    /\ current_state = "ASKING_CUISINE_INGREDIENT"
          => asked_this_session \cap {"cuisine", "ingredient"} = {}

\* the primary question is asked again after the loop-back of READY_TO_SEARCH,
\* the secondary phases still marked answered
C4_Witness ==
    /\ current_state = "ASKING_CUISINE_INGREDIENT"
    /\ {"dislikes", "dietary"} \subseteq asked_this_session

\* the single-valued categories an answer at the prompt is merged into
MergedCategories(prompt) ==
    IF prompt = "ASKING_CUISINE_INGREDIENT" THEN {"cuisine", "ingredient"}
    ELSE IF prompt = "ASKING_CATEGORY" THEN {"category"}
    ELSE {}

\* the last line was an utterance answered at a prompt that merges into a
\* single-valued category, and it parsed to a preference
MergedAnswer ==
    /\ MergedCategories(last_input.prompt) # {}
    /\ Lower(Strip(last_input.line)) \in UtteranceLines
    /\ last_intent_data # <<>>
    /\ last_intent_data.intent = "preference"

\* C16 (as claimed): merging the tags of an answer into a single-valued category
\* (cuisine or ingredient at ASKING_CUISINE_INGREDIENT, category at
\* ASKING_CATEGORY) leads to CLARIFY_PREFERENCE whenever the answer carries two
\* or more distinct tags of such a category, and never when it carries a single
\* tag, whatever the store already holds.
C16_ClarifyIffAnswerHasTwoTags ==
    MergedAnswer =>
        LET entities == last_intent_data.entities
            cats == MergedCategories(last_input.prompt)
        IN /\ (\E k \in cats : Cardinality(EntGet(entities, k)) >= 2)
                 => current_state = "CLARIFY_PREFERENCE"
           /\ (\A k \in cats : Cardinality(EntGet(entities, k)) <= 1)
                 => current_state # "CLARIFY_PREFERENCE"

\* the state HANDLE_NEGATION leaves behind: the only silent step that ends in a
\* secondary question or in READY_TO_SEARCH
NegationHandled ==
    /\ last_input = NoInput
    /\ current_state \in {"ASKING_CATEGORY", "ASKING_DISLIKES", "ASKING_DIETARY", "READY_TO_SEARCH"}
    /\ last_intent_data # <<>>

ChoiceMatches(line, clarification) ==
    EntGet(parse_input_nlp(NLP(Lower(Strip(line))), PREFERENCE_MAP,
                           <<clarification.type>>).entities,
           clarification.type) \cap clarification.options

\* C18: a choice other than quit given in CLARIFY_PREFERENCE sets the colliding
\* category to exactly one tag of the choice that is among the offered options
\* when there is one, and to the value set held before the colliding merge
\* otherwise; either way the category is marked answered and the next state is
\* the first of ASKING_CATEGORY, ASKING_DISLIKES, ASKING_DIETARY whose phase is
\* unanswered, READY_TO_SEARCH when none is.
C18_ClarifyAcceptsOrFallsBack ==
    [][(/\ current_state = "CLARIFY_PREFERENCE"
        /\ clarification_data # <<>>
        /\ Lower(Strip(last_input'.line)) # "quit") =>
          LET pref_type == clarification_data.type
              matches == ChoiceMatches(last_input'.line, clarification_data)
          IN /\ IF matches # {}
                THEN \E tag \in matches : preferences'[pref_type] = {tag}
                ELSE preferences'[pref_type] = clarification_data.original_prefs
             /\ \A k \in DOMAIN preferences \ {pref_type} : preferences'[k] = preferences[k]
             /\ asked_this_session' = asked_this_session \cup {pref_type}
             /\ current_state' =
                   IF "category" \notin asked_this_session' THEN "ASKING_CATEGORY"
                   ELSE IF "dislikes" \notin asked_this_session' THEN "ASKING_DISLIKES"
                   ELSE IF "dietary" \notin asked_this_session' THEN "ASKING_DIETARY"
                   ELSE "READY_TO_SEARCH"]_vars

\* the choice 'italian' has been answered at the clarification prompt that
\* offered italian and mexican: cuisine holds italian alone and is answered
C18_Witness ==
    /\ last_input = Read("CLARIFY_PREFERENCE", "italian")
    /\ clarification_data = <<>>
    /\ "cuisine" \in asked_this_session
    /\ preferences["cuisine"] = {"italian"}
    /\ current_state = "ASKING_CATEGORY"

\* the tags the parse holds in any bucket but attributes
TagsOutsideAttributes(intent_data) ==
    IF intent_data = <<>> THEN {}
    ELSE UNION {intent_data.entities[k] : k \in DOMAIN intent_data.entities \ {"attributes"}}

\* C19: a run of HANDLE_NEGATION leaves in preferences['dislikes'] every tag the
\* triggering parse holds in negated, in dislikes or in any other bucket except
\* attributes, and every tag that was in dislikes before.
C19_HandledTagsAreDisliked ==
    [][current_state = "HANDLE_NEGATION" =>
          /\ TagsOutsideAttributes(last_intent_data) \subseteq preferences'["dislikes"]
          /\ preferences["dislikes"] \subseteq preferences'["dislikes"]]_vars

\* HANDLE_NEGATION has run on a parse of a second answer: dislikes hold the tag
\* of the first (dessert, from the category bucket of the answer to the
\* dislikes question) and the negated tag of the second
C19_Witness ==
    /\ NegationHandled
    /\ last_intent_data.intent = "negation"
    /\ "chicken" \in EntGet(last_intent_data.entities, "negated")
    /\ preferences["dislikes"] = {"dessert", "chicken"}

\* C20 (as claimed): when HANDLE_NEGATION handles an answer given at
\* ASKING_CATEGORY or ASKING_DIETARY, the controller does not return to the
\* ASKING state the answer was given at.
C20_NegationAdvancesPastPhase ==
    [][(/\ current_state = "HANDLE_NEGATION"
        /\ last_input.prompt \in {"ASKING_CATEGORY", "ASKING_DIETARY"})
          => current_state' # last_input.prompt]_vars

\* C21: a line answered at the confirmation prompt of READY_TO_SEARCH leads to
\* SEARCHING when it is 'yes', to EXITING when it is 'quit', and otherwise
\* empties the answered set and leads to ASKING_CUISINE_INGREDIENT; the
\* preferences are the same after the step in all three cases.
C21_ConfirmationOutcomes ==
    [][(current_state = "READY_TO_SEARCH" /\ last_input'.prompt = "READY_TO_SEARCH") =>
          LET search_confirm == Lower(Strip(last_input'.line))
          IN /\ preferences' = preferences
             /\ search_confirm = "yes" => current_state' = "SEARCHING"
             /\ search_confirm = "quit" => current_state' = "EXITING"
             /\ search_confirm \notin {"yes", "quit"} =>
                   /\ asked_this_session' = {}
                   /\ current_state' = "ASKING_CUISINE_INGREDIENT"]_vars

\* the confirmation has been refused with a primary tag in the store: the
\* primary question is up again, nothing is marked answered, the tag is kept
C21_Witness ==
    /\ last_input = Read("READY_TO_SEARCH", "no")
    /\ current_state = "ASKING_CUISINE_INGREDIENT"
    /\ asked_this_session = {}
    /\ preferences["cuisine"] = {"italian"}

\* the primary categories in the order of their attempts, and those of them the
\* store holds exactly one tag of
PrimaryOrder == <<"cuisine", "ingredient", "category">>
IsSingleTag(k) == Cardinality(PrefGet(preferences, k)) = 1
SingleTagPrimaries == SelectSeq(PrimaryOrder, IsSingleTag)

\* the primary attempts of a search log
IsPrimaryAttempt(entry) == entry.type # "random"
PrimaryAttempts(log) == SelectSeq(log, IsPrimaryAttempt)

\* C22: a run of SEARCHING that ends normally has issued its primary attempts in
\* the order cuisine, ingredient, category, one for each primary category that
\* holds exactly one tag and none for another, up to the first attempt whose
\* filtered result is non-empty: no search of any kind follows that attempt, its
\* filtered result is the list carried into SHOWING_RESULTS, and every attempt
\* before it was left with nothing.
C22_PrimaryAttemptsInOrder ==
    [][(current_state = "SEARCHING" /\ current_state' # "UNCAUGHT_EXCEPTION") =>
          LET log == search_log'
              primary == PrimaryAttempts(log)
              expected == SingleTagPrimaries
          IN /\ Len(primary) <= Len(expected)
             /\ \A i \in 1..Len(primary) : primary[i].type = expected[i]
             /\ \A i \in 1..Len(log) : log[i].found # <<>> => i = Len(log)
             /\ \A i \in 1..Len(log) :
                   log[i].type = "random" => i = Len(expected) + 1
             /\ (primary # <<>> /\ primary[Len(primary)].found # <<>>) =>
                   /\ current_state' = "SHOWING_RESULTS"
                   /\ last_results' = primary[Len(primary)].found
             /\ (primary = log /\ log # <<>> /\ log[Len(log)].found = <<>>) => FALSE]_vars

\* a search with a cuisine and an ingredient tag has ended in SHOWING_RESULTS on
\* its second attempt, the cuisine attempt having left nothing
C22_Witness ==
    /\ current_state = "SHOWING_RESULTS"
    /\ Len(search_log) = 2
    /\ search_log[1].type = "cuisine" /\ search_log[1].found = <<>>
    /\ search_log[2].type = "ingredient" /\ search_log[2].found = last_results
    /\ last_results # <<>>

\* the meal passed the inspection of its detail record under the store
PassedInspection(meal) ==
    /\ meal.idMeal \in DOMAIN MEAL_DB
    /\ ~check_dislikes(MEAL_DB[meal.idMeal], preferences, PREFERENCE_MAP)
    /\ ~check_dietary_restrictions(MEAL_DB[meal.idMeal], preferences, PREFERENCE_MAP)

\* C23: in a run of SEARCHING that ends normally the random fallback is logged
\* only after every primary attempt of the run, each left with nothing; the meals
\* it finds have all passed the inspection of their detail; SHOWING_RESULTS is
\* entered only with a non-empty list; and when the fallback finds nothing
\* either, the retry / start over / quit line is read and the next state is
\* ASKING_CUISINE_INGREDIENT or EXITING, not SHOWING_RESULTS.
C23_FallbackOnlyAfterAllAttemptsFailed ==
    [][(current_state = "SEARCHING" /\ current_state' # "UNCAUGHT_EXCEPTION") =>
          LET log == search_log'
              last == log[Len(log)]
          IN /\ log # <<>>
             /\ \A i \in 1..Len(log) : log[i].type = "random" =>
                   /\ i = Len(log)
                   /\ Len(PrimaryAttempts(log)) = Len(SingleTagPrimaries)
                   /\ \A j \in 1..(i - 1) : log[j].found = <<>>
                   /\ \A n \in 1..Len(log[i].found) : PassedInspection(log[i].found[n])
             /\ current_state' = "SHOWING_RESULTS" =>
                   last_results' # <<>> /\ last_results' = last.found
             /\ (last.type = "random" /\ last.found = <<>>) =>
                   /\ last_input'.prompt = "SEARCHING"
                   /\ current_state' \in {"ASKING_CUISINE_INGREDIENT", "EXITING"}
                   /\ last_results' = last_results]_vars

\* the fallback has found a meal after the only primary attempt left nothing,
\* the store holding a dislike that one of the random candidates fails on
C23_Witness ==
    /\ current_state = "SHOWING_RESULTS"
    /\ Len(search_log) = 2
    /\ search_log[1].found = <<>>
    /\ search_log[2].type = "random"
    /\ preferences["dislikes"] # {}
    /\ Len(last_results) = 1
    /\ last_results[1].idMeal = "2"

\* the members of DialogueState (lines 364-371)
DialogueStates ==
    {"START", "FETCHING_LISTS", "ASKING_CUISINE_INGREDIENT", "ASKING_CATEGORY",
     "ASKING_DIETARY", "ASKING_DISLIKES", "CLARIFY_PREFERENCE", "HANDLE_NEGATION",
     "READY_TO_SEARCH", "SEARCHING", "SHOWING_RESULTS", "GETTING_DETAILS", "EXITING",
     "ERROR_STATE"}

\* C24 (as claimed): an unexpected failure in a dialogue state takes the
\* controller to ERROR_STATE (and from there to START), so the controller is
\* always in a dialogue state and no failure ends the program.
C24_FailureEntersErrorState ==
    current_state \in DialogueStates

\* C25 (as claimed): whatever the data source answers, a step of SEARCHING
\* (search, filtering, random fallback) or of GETTING_DETAILS (detail display)
\* ends in one of the states these two lead to: SHOWING_RESULTS, SEARCHING,
\* GETTING_DETAILS, ASKING_CUISINE_INGREDIENT after the retry / start over offer,
\* or EXITING.
C25_SourceFailuresAreNotFatal ==
    [][(current_state \in {"SEARCHING", "GETTING_DETAILS"}) =>
          current_state' \in {"SHOWING_RESULTS", "SEARCHING", "GETTING_DETAILS",
                              "ASKING_CUISINE_INGREDIENT", "EXITING"}]_vars

-----------------------------------------------------------------------------
(* Further properties of filter_meal_results, checked under SpecFilter.    *)

\* C27 (as claimed): within one call of filter_meal_results no id is looked up
\* twice, also when the candidate list repeats an id.
C27_DetailFetchedOncePerId ==
    fcall # <<>> =>
        \A i, j \in 1..Len(fresult.fetched) :
            fresult.fetched[i] = fresult.fetched[j] => i = j

\* the single tag the call holds for the category, when the category was not the
\* one searched by and no keyword of the tag is a value of the vocabulary
UnmappedSecondaryTags(type, vocabulary) ==
    {t \in PrefGet(fcall.prefs, type) :
        /\ Cardinality(PrefGet(fcall.prefs, type)) = 1
        /\ fcall.initial # type
        /\ \A kw \in SeqToSet(TagGet(PMGet(PREFERENCE_MAP, type), t, <<>>)) :
              Lower(kw) \notin vocabulary}

\* C28 (as claimed): when the single secondary cuisine (category) tag has no
\* keyword among the areas (categories) of the source, the tag text is the
\* expected value: every returned candidate has that text in its area
\* (category) field.
C28_UnmappedTagTextIsExpected ==
    (fcall # <<>> /\ ~fresult.raised) =>
        \A i \in 1..Len(fresult.ret) :
            LET id == fresult.ret[i].idMeal
            IN id \in DOMAIN MEAL_DB =>
                  /\ \A t \in UnmappedSecondaryTags("cuisine", fcall.lists.areas) :
                        MEAL_DB[id].strArea # NoneVal /\ Lower(MEAL_DB[id].strArea) = Lower(t)
                  /\ \A t \in UnmappedSecondaryTags("category", fcall.lists.categories) :
                        /\ MEAL_DB[id].strCategory # NoneVal
                        /\ Lower(MEAL_DB[id].strCategory) = Lower(t)

-----------------------------------------------------------------------------
(* Properties of call_mealdb_api, checked under SpecApi.                   *)

\* the first request was answered with the rate-limit status
RateLimited == acall[1].kind = "response" /\ acall[1].status = 429

\* C26: one call of call_mealdb_api sends one request, or two when the first
\* response has status 429, and never a third, whatever the later requests
\* would be answered; it raises nothing; and when the request it ends on fails
\* (timeout, connection error, other request error, error status, undecodable
\* body, body that is no object) it returns None.
C26_AtMostOneRetryOnRateLimit ==
    acall # <<>> =>
        LET kept == IF RateLimited THEN acall[2] ELSE acall[1]
        IN /\ aresult.sent = (IF RateLimited THEN 2 ELSE 1)
           /\ aresult.raised = ""
           /\ (kept.kind # "response" \/ kept.status # 200
               \/ kept.body \in {"undecodable", "array"}) => aresult.ret = NoneVal

\* the first two requests are both answered 429 and a third would succeed: two
\* requests are sent and None is returned
C26_Witness ==
    /\ Len(acall) = 3
    /\ RateLimited
    /\ acall[2].status = 429
    /\ acall[3] = [kind |-> "response", status |-> 200, body |-> "meals"]
    /\ aresult.sent = 2
    /\ aresult.ret = NoneVal

-----------------------------------------------------------------------------
(* Further properties of the dialogue controller, checked under Spec.      *)

\* the first of the category, dislikes and dietary questions whose phase is not
\* in the answered set, READY_TO_SEARCH when all three are
FirstUnanswered(answered) ==
    IF "category" \notin answered THEN "ASKING_CATEGORY"
    ELSE IF "dislikes" \notin answered THEN "ASKING_DISLIKES"
    ELSE IF "dietary" \notin answered THEN "ASKING_DIETARY"
    ELSE "READY_TO_SEARCH"

\* the categories a question asks for
PhaseCategories(state) ==
    IF state = "ASKING_CUISINE_INGREDIENT" THEN {"cuisine", "ingredient"}
    ELSE IF state = "ASKING_CATEGORY" THEN {"category"}
    ELSE IF state = "ASKING_DISLIKES" THEN {"dislikes"}
    ELSE IF state = "ASKING_DIETARY" THEN {"dietary"}
    ELSE {}

\* C29: at any of the four questions, an empty answer or skip / any / no / none
\* in any case adds the categories of the question to the answered set, leaves
\* the preferences as they were and moves to the first of the category,
\* dislikes and dietary questions not yet answered, READY_TO_SEARCH when all
\* three are.
C29_SkipMarksAndAdvances ==
    [][(/\ PhaseCategories(current_state) # {}
        /\ last_input'.prompt = current_state
        /\ Lower(Strip(last_input'.line)) \in {"skip", "any", "no", "none", ""}) =>
          /\ asked_this_session' = asked_this_session \cup PhaseCategories(current_state)
          /\ preferences' = preferences
          /\ current_state' = FirstUnanswered(asked_this_session')]_vars

\* the dislikes question has been skipped with 'Any' after a category was given:
\* the dietary question is up and the category tag is still held
C29_Witness ==
    /\ last_input = Read("ASKING_DISLIKES", "Any")
    /\ current_state = "ASKING_DIETARY"
    /\ {"category", "dislikes"} \subseteq asked_this_session
    /\ preferences["category"] = {"dessert"}

\* C30: at ASKING_CATEGORY or ASKING_DIETARY, an answer parsed as a preference
\* that holds no tag of the question's own category marks the phase answered and
\* moves to the first unanswered question, and the preferences are left as they
\* were: the tags the parse holds for other categories are not stored.
C30_OffTopicPreferenceIsNotStored ==
    [][(/\ current_state \in {"ASKING_CATEGORY", "ASKING_DIETARY"}
        /\ last_input'.prompt = current_state
        /\ Lower(Strip(last_input'.line)) \in UtteranceLines
        /\ last_intent_data'.intent = "preference"
        /\ EntGet(last_intent_data'.entities, CurrentPrefType(current_state)) = {}) =>
          /\ asked_this_session' = asked_this_session \cup {CurrentPrefType(current_state)}
          /\ preferences' = preferences
          /\ current_state' = FirstUnanswered(asked_this_session')]_vars

\* 'italian' has been answered to the category question with no cuisine held:
\* the parse holds the cuisine tag, the store does not, the dislikes question is up
C30_Witness ==
    /\ last_input = Read("ASKING_CATEGORY", "italian")
    /\ last_intent_data.intent = "preference"
    /\ EntGet(last_intent_data.entities, "cuisine") = {"italian"}
    /\ preferences["cuisine"] = {}
    /\ "category" \in asked_this_session
    /\ current_state = "ASKING_DISLIKES"

-----------------------------------------------------------------------------
(* Further properties of parse_input_nlp, checked under SpecParse.         *)

\* the keywords of the priority categories and of the other categories of the call
CallPriorityItems == PriorityItems(LexiconOf(pcall.pm), pcall.asking)
CallRemainingItems == RemainingItems(LexiconOf(pcall.pm), pcall.asking)

\* the tokens the single-token pass looks up whose surface form or lemma is a
\* keyword of a priority category and of another category
AmbiguousTokens ==
    {i \in 1..Len(pcall.doc) :
        /\ i \notin CoveredTokens
        /\ FirstHit(CallPriorityItems, pcall.doc[i]) # 0
        /\ FirstHit(CallRemainingItems, pcall.doc[i]) # 0}

\* the priority-category keyword item of an ambiguous token
PriorityItemOf(i) == CallPriorityItems[FirstHit(CallPriorityItems, pcall.doc[i])]

\* the tag of category type is recorded there for a match that is not an
\* ambiguous token: a phrase match, or a token that no priority category knows
RecordedByOtherMatch(type, key) ==
    \/ \E a \in 1..Len(CallOccurrences) :
          LET o == CallOccurrences[a]
          IN /\ o.item.key = key
             /\ type = PhraseTarget(pcall.asking, o.item,
                           IsNegatedPhrase(pcall.doc, DocText(pcall.doc), o.item.kw, o.start))
    \/ \E j \in (1..Len(pcall.doc)) \ CoveredTokens :
          LET h == FirstHit(CallRemainingItems, pcall.doc[j])
          IN /\ FirstHit(CallPriorityItems, pcall.doc[j]) = 0
             /\ h # 0
             /\ CallRemainingItems[h].key = key
             /\ CallRemainingItems[h].type = type
             /\ ~IsNegatedToken(pcall.doc, j)

\* C31: a token of the single-token pass whose surface form or lemma is a
\* single-word keyword of a priority category and of a non-priority category is
\* recorded under the priority category (under negated when it is negated and
\* the category is not dislikes), and its non-priority tag is under the
\* non-priority category only when another match of the utterance put it there.
C31_AmbiguousTokenGoesToPriorityCategory ==
    Returned =>
        \A i \in AmbiguousTokens :
            /\ PriorityItemOf(i).key \in
                  EntGet(Entities, IF IsNegatedToken(pcall.doc, i)
                                      /\ PriorityItemOf(i).type # "dislikes"
                                   THEN "negated" ELSE PriorityItemOf(i).type)
            /\ \A b \in 1..Len(CallRemainingItems) :
                  ( /\ \/ CallRemainingItems[b].kw = pcall.doc[i].text
                       \/ CallRemainingItems[b].kw = pcall.doc[i].lemma
                    /\ CallRemainingItems[b].key
                          \in EntGet(Entities, CallRemainingItems[b].type) )
                  => RecordedByOtherMatch(CallRemainingItems[b].type,
                                          CallRemainingItems[b].key)

\* "dessert chicken" asked for a category: chicken is a category keyword and an
\* ingredient keyword, and the result holds no ingredient
C31_Witness ==
    /\ Returned
    /\ pcall.asking = <<"category">>
    /\ DocText(pcall.doc) = "dessert chicken"
    /\ AmbiguousTokens = {2}
    /\ Entities = [k \in {"category"} |-> {"dessert", "chicken"}]

-----------------------------------------------------------------------------
(* Properties of the result pages, checked under Spec.                     *)

\* the first n elements of a sequence
Prefix(seq, n) == SubSeq(seq, 1, n)

\* the displayed meals are the first results of the last search
DisplayedIsPrefix ==
    /\ Len(displayed_meals) <= Len(last_results)
    /\ displayed_meals = Prefix(last_results, Len(displayed_meals))

\* how many results the next page holds
NextPageSize ==
    IF Len(last_results) - Len(displayed_meals) < 5
    THEN Len(last_results) - Len(displayed_meals) ELSE 5

\* C32: the displayed meals are always a prefix of the last search's results; a
\* step of SHOWING_RESULTS extends them by the next min(5, remaining) results
\* in order (by nothing when none remain) and goes to GETTING_DETAILS; a search
\* that enters SHOWING_RESULTS leaves no meal displayed.
C32_PagesArePrefixesOfLastResults ==
    [][/\ DisplayedIsPrefix
       /\ DisplayedIsPrefix'
       /\ (current_state = "SHOWING_RESULTS") =>
             /\ displayed_meals' = Prefix(last_results, Len(displayed_meals) + NextPageSize)
             /\ last_results' = last_results
             /\ current_state' = "GETTING_DETAILS"
       /\ (current_state = "SEARCHING" /\ current_state' = "SHOWING_RESULTS") =>
             /\ displayed_meals' = <<>>
             /\ last_results' # <<>>]_vars

\* six results, all displayed: a full page of five, then a page of one
C32_Witness ==
    /\ Len(last_results) = 6
    /\ Len(displayed_meals) = 6
    /\ current_state = "GETTING_DETAILS"
    /\ last_input = NoInput

-----------------------------------------------------------------------------
(* Further properties of the checkers, checked under SpecCheck.  The lines *)
(* of the harness are classified by hand: which of them name a keyword of  *)
(* a family as a whole word, and which of those carry the family's         *)
(* qualifier on the same line.                                             *)

MeatKeywordLines == {"1 cup Chicken broth", "chicken vegetable stock"}
MeatExcusedLines == {"chicken vegetable stock"}
DairyKeywordLines == {"cream", "dairy-free cream"}
DairyExcusedLines == {"dairy-free cream"}
EggKeywordLines == {"2 eggs", "eggs in vegetable broth"}
GlutenKeywordLines == {"flour", "gluten-free flour", "tamari soy sauce"}
GlutenExcusedLines == {"gluten-free flour", "tamari soy sauce"}

\* the lines that exclude a detail under the dietary tags D
ExcludingLines(D) ==
    (IF D \cap {"vegetarian", "vegan"} # {} THEN MeatKeywordLines \ MeatExcusedLines ELSE {})
    \cup (IF D \cap {"vegan", "dairy_free"} # {}
          THEN DairyKeywordLines \ DairyExcusedLines ELSE {})
    \cup (IF "vegan" \in D THEN EggKeywordLines ELSE {})
    \cup (IF "gluten_free" \in D THEN GlutenKeywordLines \ GlutenExcusedLines ELSE {})

\* C33: check_dietary_restrictions excludes a detail exactly when one of its
\* ingredient lines names a keyword of an active family without that family's
\* qualifier on the same line; a qualifier on another line does not excuse the
\* line, and an egg keyword under vegan is excused by nothing.
C33_ExceptionAppliesToSameLineOnly ==
    cresult.dietary <=> (CheckedLines \cap ExcludingLines(ccall.prefs.dietary) # {})

\* chicken broth on one line, vegetable broth on the next, under vegetarian
C33_Witness ==
    /\ ccall.prefs.dietary = {"vegetarian"}
    /\ ccall.detail.ingredients = <<"1 cup Chicken broth", "2 cups vegetable broth">>
    /\ cresult.dietary

\* the keywords of tag in the named category of the lexicon, lower-cased
MapKeywords(category, tag) ==
    {Lower(kw) : kw \in SeqToSet(TagGet(PMGet(PREFERENCE_MAP, category), tag, <<>>))}

\* the keyword set of a disliked tag by the fallback chain: the dislikes map, else
\* the ingredient, category and cuisine maps, else the tag's own text
FallbackKeywords(tag) ==
    IF TagHas(PMGet(PREFERENCE_MAP, "dislikes"), tag) THEN MapKeywords("dislikes", tag)
    ELSE IF \E c \in {"ingredient", "category", "cuisine"} :
                TagHas(PMGet(PREFERENCE_MAP, c), tag)
         THEN UNION {MapKeywords(c, tag) : c \in {"ingredient", "category", "cuisine"}}
         ELSE {Lower(tag)}

\* the texts of the detail that check_dislikes searches
SearchedTexts ==
    {Lower(Strip(line)) : line \in CheckedLines \ {NoneVal}}
    \cup {Lower(ccall.detail.strMeal), Lower(ccall.detail.strCategory)}

\* C34 (as claimed): check_dislikes excludes the detail exactly when a keyword
\* of the fallback chain of some disliked tag occurs as a whole word in an
\* ingredient line, the display name or the category field.
C34_DislikeKeywordsFollowFallbackChain ==
    cresult.dislikes <=>
        \E tag \in ccall.prefs.dislikes :
            \E kw \in FallbackKeywords(tag), text \in SearchedTexts : WordSearch(kw, text)

-----------------------------------------------------------------------------
(* Further properties of the phrase pass, checked under SpecParse.         *)

\* the literal 'without ' + phrase starts somewhere before the match
WithoutLiteralBefore(occ) ==
    \E i \in 0..(occ.start - 1) : StartsAt(DocText(pcall.doc), "without " \o occ.item.kw, i)

\* the matches that neither follow a negation marker nor have the literal before them
UnmarkedOccurrences ==
    {a \in 1..Len(CallOccurrences) :
        /\ CallOccurrences[a].item.type # "dislikes"
        /\ ~PrecededByNegationMarker(CallOccurrences[a])
        /\ ~WithoutLiteralBefore(CallOccurrences[a])}

\* C35 (as claimed): outside the dislikes question, a match of a multi-word
\* phrase that has no negation marker immediately before it and no literal
\* 'without ' + phrase before it is recorded under the phrase's home category,
\* also when the phrase occurs negated elsewhere in the utterance.
C35_UnmarkedOccurrenceIsRecordedAtHome ==
    (Returned /\ pcall.asking # <<"dislikes">>) =>
        \A a \in UnmarkedOccurrences :
            CallOccurrences[a].item.key \in EntGet(Entities, CallOccurrences[a].item.type)

-----------------------------------------------------------------------------
(* Properties of load_questions_from_json, checked under SpecLoad.         *)

\* an item that is a question record with its three required fields in order
IsValidItem(item) ==
    /\ item # NotAnObject
    /\ item.text \notin {MissingKey, NoneVal, ""}
    /\ item.positive_tag \notin {MissingKey, NoneVal, ""}
    /\ item.phase \in {"initial", "secondary"}

\* what identifies a question: its text, its tag in lower case and its phase
KeyOfItem(item) == <<item.text, Lower(item.positive_tag), item.phase>>
KeyOfQuestion(q) == <<q.text, q.positive_tag, q.phase>>

ValidItems == SelectSeq(qcall.data, IsValidItem)

\* C36: from a file that holds a list, load_questions_from_json returns the
\* questions of exactly the valid items, in the order of the list; an item
\* without text, positive_tag or phase, with an invalid phase or with an empty
\* text or tag is left out and the others are still returned.
C36_LoadSkipsOnlyInvalidRecords ==
    qcall.file = "list" =>
        /\ Len(qresult) = Len(ValidItems)
        /\ \A i \in 1..Len(qresult) : KeyOfQuestion(qresult[i]) = KeyOfItem(ValidItems[i])

\* a record without positive_tag between two valid records of different phases
C36_Witness ==
    /\ qcall.file = "list"
    /\ Len(qcall.data) = 3
    /\ ~IsValidItem(qcall.data[2])
    /\ qcall.data[2] # NotAnObject
    /\ qcall.data[2].positive_tag = MissingKey
    /\ Len(qresult) = 2
    /\ qresult[1].phase = "secondary"
    /\ qresult[2].phase = "initial"

-----------------------------------------------------------------------------
(* Properties of the primary question, checked under Spec.                 *)

\* the last line was answered at the Cuisine/Ingredient prompt and parsed to a
\* preference holding tags of both of its categories
AnsweredBothPrimaries ==
    /\ last_input.prompt = "ASKING_CUISINE_INGREDIENT"
    /\ MergedAnswer
    /\ EntGet(last_intent_data.entities, "cuisine") # {}
    /\ EntGet(last_intent_data.entities, "ingredient") # {}

\* C37 (as claimed): after an answer at ASKING_CUISINE_INGREDIENT whose parse is
\* a preference with tags of cuisine and of ingredient, the store holds all of
\* those tags, also when the step ends in CLARIFY_PREFERENCE.
C37_BothPrimaryCategoriesAreMerged ==
    AnsweredBothPrimaries =>
        /\ EntGet(last_intent_data.entities, "cuisine") \subseteq preferences["cuisine"]
        /\ EntGet(last_intent_data.entities, "ingredient") \subseteq preferences["ingredient"]

\* the primary categories that hold more than one tag
MultiValued ==
    {k \in {"cuisine", "ingredient", "category"} : Cardinality(PrefGet(preferences, k)) > 1}

\* C38: outside CLARIFY_PREFERENCE and EXITING each of cuisine, ingredient and
\* category holds at most one tag, and in CLARIFY_PREFERENCE at most one of them
\* holds more than one; SEARCHING therefore reads at most one tag per category.
C38_PrimaryCategoriesAreSingleValued ==
    /\ current_state \notin {"CLARIFY_PREFERENCE", "EXITING"} => MultiValued = {}
    /\ current_state = "CLARIFY_PREFERENCE" => Cardinality(MultiValued) <= 1

\* a collision of two cuisines resolved by the answer 'mexican chicken'
C38_Witness ==
    /\ last_input = Read("CLARIFY_PREFERENCE", "mexican chicken")
    /\ preferences["cuisine"] = {"mexican"}
    /\ MultiValued = {}
    /\ current_state = "ASKING_CATEGORY"

\* the dietary tags check_dietary_restrictions knows
DietaryTags == {"vegetarian", "vegan", "dairy_free", "gluten_free"}

\* is the detail of the call excluded under the dietary tags D
ExcludedUnder(D) ==
    check_dietary_restrictions(ccall.detail, [ccall.prefs EXCEPT !.dietary = D], PREFERENCE_MAP)

\* C39: a detail that check_dietary_restrictions excludes under a set of
\* dietary tags is excluded under every superset of it, and a detail excluded
\* under vegetarian is excluded under vegan.
C39_DietaryCheckIsMonotone ==
    /\ cresult.dietary =>
          \A D \in SUBSET DietaryTags : ccall.prefs.dietary \subseteq D => ExcludedUnder(D)
    /\ ExcludedUnder({"vegetarian"}) => ExcludedUnder({"vegan"})

\* a detail with a chicken broth line, excluded under vegetarian and under vegan
C39_Witness ==
    /\ ccall.prefs.dietary = {"vegetarian"}
    /\ "1 cup Chicken broth" \in CheckedLines
    /\ cresult.dietary
    /\ ExcludedUnder({"vegan"})
    /\ ExcludedUnder({"vegetarian", "gluten_free"})

-----------------------------------------------------------------------------
(* Properties of the restart commands, checked under Spec.                 *)

\* the command typed in the step (lower-cased and stripped as the prompts do)
\* at one of the given prompts
Commanded(command, prompts) ==
    /\ last_input'.prompt \in prompts
    /\ Lower(Strip(last_input'.line)) = command

\* C40: 'start over', at GETTING_DETAILS and at the failed-search prompt,
\* empties every category of the store and the answered set, leaves no
\* clarification pending and goes to ASKING_CUISINE_INGREDIENT; 'retry' at the
\* failed-search prompt empties the answered set, keeps the store and goes to
\* ASKING_CUISINE_INGREDIENT.
C40_StartOverEmptiesRetryKeeps ==
    [][/\ Commanded("start over", {"GETTING_DETAILS", "SEARCHING"}) =>
             /\ \A k \in DOMAIN preferences' : preferences'[k] = {}
             /\ DOMAIN preferences' = DOMAIN preferences \ {"flavor"}
             /\ asked_this_session' = {}
             /\ clarification_data' = <<>>
             /\ current_state' = "ASKING_CUISINE_INGREDIENT"
       /\ Commanded("retry", {"SEARCHING"}) =>
             /\ preferences' = preferences
             /\ asked_this_session' = {}
             /\ current_state' = "ASKING_CUISINE_INGREDIENT"]_vars

\* 'start over' at the failed-search prompt of a search for a stored category
C40_Witness ==
    /\ last_input = Read("SEARCHING", "start over")
    /\ search_log # <<>>
    /\ search_log[1].type = "category"
    /\ \A k \in DOMAIN preferences : preferences[k] = {}
    /\ asked_this_session = {}
    /\ current_state = "ASKING_CUISINE_INGREDIENT"

====
